---- MODULE Spec2Model ----
(***************************************************************************)
(* Model of the recording pipeline of uiauto/recorder.py: the Recorder     *)
(* object, its listener callbacks, the flush-checker and stop-hotkey       *)
(* threads, record_session and the element merge of save_elements.         *)
(*                                                                         *)
(* Threads: "mouse" and "keyboard" are the two pynput listener threads,    *)
(* "flush" runs _flush_checker, "hotkey" runs _hotkey_listener_thread and  *)
(* "main" runs record_session (or an API user calling start() / stop()).   *)
(* Every step between two accesses of shared state is one action, so that  *)
(* all interleavings the interpreter can produce are explored.             *)
(***************************************************************************)
EXTENDS Integers, Sequences, FiniteSets, TLC

(***************************************************************************)
(* Bounds of the model                                                     *)
(***************************************************************************)
\* number of mouse events and of presses of non-modifier keys the OS hooks
\* deliver while recording
MaxEvents == 2
\* the same number in the specification of the whole session, which adds the
\* stop triggers and the saving of the outputs
MaxSessionEvents == 1
\* counted input events of a session whose events are delivered one after
\* the other
MaxRunEvents == 2

\* counted key presses of a session that receives keyboard events only
MaxKeyEvents == 2

\* counted input events of a session in which stop() runs beside the
\* callbacks and the flush-checker
MaxFlushEvents == 2

\* counted input events of a session whose threads are scheduled fairly
MaxFairEvents == 2

\* counted input events of a session that is stopped under fair scheduling
MaxStopEvents == 1

\* counted input events of a session whose saves are retried
MaxSaveEvents == 1

\* counted input events of a session that starts with the record command
MaxProcessEvents == 1

\* number of nodes of the ancestor chain of a hit-tested node
MaxChain == 6

\* input events delivered to the two listeners while both resolve elements
MaxResolveEvents == 2

\* counted key presses while the stop hotkey may be detected
MaxChordEvents == 2

\* counted input events of a recorder that is started again after its stop
MaxRestartEvents == 1

\* number of elements resolved before the element merge is run
MaxResolutions == 2

(***************************************************************************)
(* Program constants                                                       *)
(***************************************************************************)
\* a walk of one level more than the source's five
MaxParentWalkDepthSix == 5 + 1

\* MAX_PARENT_WALK_DEPTH = 5
MAX_PARENT_WALK_DEPTH == 5

\* for attempt in range(3)
CaptureAttempts == 3
\* "locators": candidates[:3]
MaxLocators == 3

None == "None"
\* the None returned by a capture that found no element
NoInfo == [none |-> TRUE]

Min(a, b) == IF a < b THEN a ELSE b

(***************************************************************************)
(* Keys delivered by pynput.  A KeyCode has a char and no name; a member   *)
(* of the Key enum has a name and no char.                                 *)
(***************************************************************************)
KeyCode(c) == [name |-> None, char |-> c]
KeyEnum(n) == [name |-> n, char |-> None]

\* a table without the left Ctrl key
ModifierKeyNamesWithoutCtrl ==
    {"ctrl", "ctrl_r", "alt", "alt_l", "alt_r", "shift", "shift_r", "cmd",
     "cmd_r"}

MODIFIER_KEY_NAMES ==
    {"ctrl", "ctrl_l", "ctrl_r", "alt", "alt_l", "alt_r",
     "shift", "shift_r", "cmd", "cmd_r"}

\* the modifier flags _ctrl_pressed, _alt_pressed, _shift_pressed, _win_pressed
NoModifiers == [ctrl |-> FALSE, alt |-> FALSE, shift |-> FALSE, win |-> FALSE]

\* modifier tracking at the top of _on_key_press / in _on_key_release
TrackModifier(mods, key, down) ==
    IF key.name \in {"ctrl_l", "ctrl_r"} THEN [mods EXCEPT !.ctrl = down]
    ELSE IF key.name \in {"alt_l", "alt_r"} THEN [mods EXCEPT !.alt = down]
    ELSE IF key.name \in {"shift", "shift_r"} THEN [mods EXCEPT !.shift = down]
    ELSE IF key.name \in {"cmd", "cmd_r"} THEN [mods EXCEPT !.win = down]
    ELSE mods

IsModifierKey(key) == key.name # None /\ key.name \in MODIFIER_KEY_NAMES

\* _get_char: the character of a key, or None
GetChar(key) ==
    IF key.char # None THEN key.char
    ELSE IF key.name = "space" THEN " "
    ELSE IF key.name = "enter" THEN "\n"
    ELSE IF key.name = "tab" THEN "\t"
    ELSE None

\* the special_keys table of _format_hotkey (names are already lower case)
SpecialKeyNames ==
    {"f1", "f2", "f3", "f4", "f5", "f6", "f7", "f8", "f9", "f10", "f11",
     "f12", "esc", "escape", "delete", "del", "backspace", "back", "home",
     "end", "page_up", "page_down", "up", "down", "left", "right"}

SpecialKey(n) ==
    CASE n = "f1" -> "{F1}" [] n = "f2" -> "{F2}" [] n = "f3" -> "{F3}"
      [] n = "f4" -> "{F4}" [] n = "f5" -> "{F5}" [] n = "f6" -> "{F6}"
      [] n = "f7" -> "{F7}" [] n = "f8" -> "{F8}" [] n = "f9" -> "{F9}"
      [] n = "f10" -> "{F10}" [] n = "f11" -> "{F11}" [] n = "f12" -> "{F12}"
      [] n \in {"esc", "escape"} -> "{ESC}"
      [] n \in {"delete", "del"} -> "{DELETE}"
      [] n \in {"backspace", "back"} -> "{BACKSPACE}"
      [] n = "home" -> "{HOME}" [] n = "end" -> "{END}"
      [] n = "page_up" -> "{PGUP}" [] n = "page_down" -> "{PGDN}"
      [] n = "up" -> "{UP}" [] n = "down" -> "{DOWN}"
      [] n = "left" -> "{LEFT}" [] n = "right" -> "{RIGHT}"
      [] OTHER -> n

\* a _format_hotkey that leaves out the modifier prefix
FormatHotkeyBare(mods, key) ==
    LET key_str == IF key.char # None THEN key.char ELSE key.name
    IN  IF key_str \in MODIFIER_KEY_NAMES THEN None
        ELSE IF key_str \in SpecialKeyNames THEN SpecialKey(key_str)
             ELSE key_str

\* a _format_hotkey that writes the Alt prefix before the Ctrl prefix
FormatHotkeyAltFirst(mods, key) ==
    LET key_str == IF key.char # None THEN key.char ELSE key.name
    IN  IF key_str \in MODIFIER_KEY_NAMES THEN None
        ELSE (IF mods.alt THEN "%" ELSE "") \o
             (IF mods.ctrl THEN "^" ELSE "") \o
             (IF mods.shift THEN "+" ELSE "") \o
             (IF mods.win THEN "{LWIN}" ELSE "") \o
             (IF key_str \in SpecialKeyNames THEN SpecialKey(key_str)
              ELSE key_str)

\* _format_hotkey: the send_keys string of a key under the held modifiers,
\* or None
FormatHotkey(mods, key) ==
    LET key_str == IF key.char # None THEN key.char ELSE key.name
    IN  IF key_str \in MODIFIER_KEY_NAMES THEN None
        ELSE (IF mods.ctrl THEN "^" ELSE "") \o
             (IF mods.alt THEN "%" ELSE "") \o
             (IF mods.shift THEN "+" ELSE "") \o
             (IF mods.win THEN "{LWIN}" ELSE "") \o
             (IF key_str \in SpecialKeyNames THEN SpecialKey(key_str)
              ELSE key_str)

(***************************************************************************)
(* Element information and locators                                        *)
(***************************************************************************)
ByName(s) == [name |-> s]
ByAutomationId(s) == [auto_id |-> s]
ByNameRegex(s) == [name_re |-> s]
ByClassAndRole(c, r) == [class_name |-> c, control_type |-> r]

ElementInfo(n, a, t, c, cands) ==
    [name |-> n, auto_id |-> a, control_type |-> t, class_name |-> c,
     locator_candidates |-> cands]

\* the controls the accessibility tree can return for a point or the focus
LoginButton == ElementInfo("loginButton", "btnLogin", "Button", "QPushButton", <<>>)
UsernameField == ElementInfo("usernameField", "", "Edit", "QLineEdit", <<>>)
\* a control that exposes no attribute at all
Anonymous == ElementInfo("", "", "", "", <<>>)
\* two different controls whose names normalise to the same key
LogInByName == ElementInfo("Log In", "", "Button", "QPushButton", <<>>)
LogInById == ElementInfo("", "Log_In", "Button", "QToolButton",
                         <<ByAutomationId("Log_In")>>)

ElementInfos == {LoginButton, UsernameField, Anonymous, LogInByName, LogInById}

\* inspector._make_locator_candidates: exact name > automation id >
\* name regex > role and class
MakeLocatorCandidates(info) ==
    (IF info.name # "" THEN <<ByName(info.name)>> ELSE <<>>) \o
    (IF info.auto_id # "" THEN <<ByAutomationId(info.auto_id)>> ELSE <<>>) \o
    (IF info.name # "" THEN <<ByNameRegex(info.name)>> ELSE <<>>) \o
    (IF info.control_type # "" /\ info.class_name # ""
     THEN <<ByClassAndRole(info.class_name, info.control_type)>> ELSE <<>>)

\* inspector._normalize_key: characters that cannot be part of a key become "_"
NormalizeKey(raw) ==
    CASE raw = "Log In" -> "Log_In"
      [] OTHER -> raw

\* candidates of _ensure_element
Candidates(info) ==
    IF info.locator_candidates # <<>> THEN info.locator_candidates
    ELSE MakeLocatorCandidates(info)

\* base_key of _ensure_element
BaseKey(info) ==
    NormalizeKey(IF info.name # "" THEN info.name
                 ELSE IF info.auto_id # "" THEN info.auto_id
                 ELSE IF info.control_type # "" THEN info.control_type
                 ELSE "element")

\* candidates[:3]
FirstN(s, n) == SubSeq(s, 1, Min(Len(s), n))

\* an element spec that does not carry the state it was recorded in
MakeSpecWithoutState(window, state, cands) ==
    [window |-> window, locators |-> FirstN(cands, MaxLocators)]

\* the element spec _ensure_element creates
MakeSpec(window, state, cands) ==
    [window |-> window, when |-> [state |-> state],
     locators |-> FirstN(cands, MaxLocators)]

\* elements_cache is an insertion-ordered dict: a sequence of (key, spec)
CacheKeys(cache) == {cache[i].key : i \in DOMAIN cache}

CacheGet(cache, k) == (CHOOSE i \in DOMAIN cache : cache[i].key = k)

\* the loop over elements_cache.items(): the first entry whose first locator
\* equals the first candidate, or None
FindExisting(cache, cands) ==
    LET hits == {i \in DOMAIN cache :
                    /\ cache[i].spec.locators # <<>>
                    /\ cands # <<>>
                    /\ cache[i].spec.locators[1] = cands[1]}
    IN  IF hits = {} THEN None
        ELSE cache[CHOOSE i \in hits : \A j \in hits : i <= j].key

\* while elem_key in self.elements_cache: elem_key = f"{base_key}_{counter}"
RECURSIVE UniqueKey(_, _, _)
UniqueKey(cache, base, counter) ==
    LET elem_key == IF counter = 0 THEN base
                    ELSE base \o "_" \o ToString(counter)
    IN  IF elem_key \in CacheKeys(cache)
        THEN UniqueKey(cache, base, counter + 1)
        ELSE elem_key

\* the key _ensure_element settles on for candidates cands
EnsureKey(cache, info) ==
    LET found == FindExisting(cache, Candidates(info))
    IN  IF found # None THEN found ELSE UniqueKey(cache, BaseKey(info), 0)

\* an _ensure_element that returns the key without storing the spec
CachePutDropped(cache, k, spec) == cache

\* self.elements_cache[elem_key] = spec
CachePut(cache, k, spec) ==
    IF k \in CacheKeys(cache)
    THEN [cache EXCEPT ![CacheGet(cache, k)] = [key |-> k, spec |-> spec]]
    ELSE Append(cache, [key |-> k, spec |-> spec])

(***************************************************************************)
(* Nodes of the accessibility tree and the walk of _refine_element         *)
(***************************************************************************)
\* a wrapped element: whether it has an element_info, and the name and the
\* control type the element_info gives
Node(has_info, name, control_type) ==
    [has_info |-> has_info, name |-> name, control_type |-> control_type]

NamedButton == Node(TRUE, "Save", "Button")
UnnamedButton == Node(TRUE, "", "Button")
NamedPane == Node(TRUE, "Save", "Pane")
NamedUntyped == Node(TRUE, "Save", None)
Bare == Node(FALSE, "", None)

NodeKinds == {NamedButton, UnnamedButton, NamedPane, NamedUntyped, Bare}

\* the result of ElementFromPoint: the hit-tested node and its ancestors, as
\* far as parent() returns a node with another handle, and what the parent
\* query of the last node does: it returns no such node, or it raises
HitTest(nodes, top) == [nodes |-> nodes, top |-> top]

NoHit == HitTest(<<>>, None)

ParentOutcomes == {"root", "error"}

HitTests ==
    {HitTest(nodes, top) :
        nodes \in UNION {[1..n -> NodeKinds] : n \in 1..MaxChain},
        top \in ParentOutcomes}

\* generic_types of _refine_element
GenericTypes == {"Pane", "Custom", "Group", "Window"}

\* if name and control_type and control_type not in generic_types
Meaningful(node) ==
    /\ node.name # ""
    /\ node.control_type # None
    /\ node.control_type \notin GenericTypes

\* parent = current.parent() gives a node to continue with
HasParent(hit, current) == current < Len(hit.nodes)

\* a walk that returns the node it was at when it stopped
RECURSIVE RefineFromLastVisited(_, _, _)
RefineFromLastVisited(hit, current, depth) ==
    IF depth >= MAX_PARENT_WALK_DEPTH THEN current - 1
    ELSE IF hit.nodes[current].has_info /\ Meaningful(hit.nodes[current])
         THEN current
         ELSE IF HasParent(hit, current)
              THEN RefineFromLastVisited(hit, current + 1, depth + 1)
              ELSE current

\* the loop of _refine_element from the pass of number depth on, at the
\* node of index current; the result is the index of the returned node, 1
\* being the element the walk started from
RECURSIVE RefineFrom(_, _, _)
RefineFrom(hit, current, depth) ==
    IF depth >= MAX_PARENT_WALK_DEPTH THEN 1
    ELSE IF ~hit.nodes[current].has_info
         THEN IF HasParent(hit, current)
              THEN RefineFrom(hit, current + 1, depth + 1)
              ELSE 1
         ELSE IF Meaningful(hit.nodes[current]) THEN current
              ELSE IF HasParent(hit, current)
                   THEN RefineFrom(hit, current + 1, depth + 1)
                   ELSE 1

\* _refine_element(element)
RefineElement(hit) == RefineFrom(hit, 1, 0)

\* inspector.extract_control_info, for a node of which only the name and
\* the control type are known
ExtractControlInfo(node) ==
    ElementInfo(node.name, "",
                IF node.control_type = None THEN "" ELSE node.control_type,
                "", <<>>)

(***************************************************************************)
(* Steps                                                                   *)
(***************************************************************************)
ClickStep(k) == [click |-> [element |-> k]]
TypeStep(k, text) == [type |-> [element |-> k, text |-> text]]
HotkeyStep(keys) == [hotkey |-> [keys |-> keys]]

IsClick(s) == "click" \in DOMAIN s
IsType(s) == "type" \in DOMAIN s
IsHotkey(s) == "hotkey" \in DOMAIN s

\* "".join(self._typing_buffer)
RECURSIVE Join(_)
Join(buf) == IF buf = <<>> THEN "" ELSE Head(buf) \o Join(Tail(buf))


\* _flush_typing_unsafe, as functions of the typing state: it emits a step
\* only when both the buffer and the element key are truthy
FlushEmits(buf, key) == buf # <<>> /\ key # None /\ key # ""

\* a flush that puts the Type step in front of the list
FlushedStepsInFront(st, buf, key) ==
    IF FlushEmits(buf, key) THEN <<TypeStep(key, Join(buf))>> \o st ELSE st

FlushedSteps(st, buf, key) ==
    IF FlushEmits(buf, key) THEN Append(st, TypeStep(key, Join(buf))) ELSE st

\* a flush that forgets self._typing_buffer.clear()
FlushedBufferKept(buf, key) == buf

FlushedBuffer(buf, key) == IF FlushEmits(buf, key) THEN <<>> ELSE buf

FlushedKey(buf, key) == IF FlushEmits(buf, key) THEN None ELSE key

(***************************************************************************)
(* The elements document and the merge of save_elements                    *)
(***************************************************************************)
EmptyMap == [k \in {} |-> None]

MapPut(m, k, v) == [x \in DOMAIN m \cup {k} |-> IF x = k THEN v ELSE m[x]]

\* elements_block[key].get("when", {}).get("state")
ExistingState(entry) ==
    IF "when" \in DOMAIN entry /\ "state" \in DOMAIN entry.when
    THEN entry.when.state ELSE None

\* a merge that stores the state variant under the key itself
DerivedKeySame(key, state) == key

\* new_key = f"{key}__{self.state}"
DerivedKey(key, state) == key \o "__" \o state

\* a merge that overwrites an entry recorded in the same state
MergeOneOverwriting(block, key, spec, state) ==
    IF key \notin DOMAIN block THEN MapPut(block, key, spec)
    ELSE IF ExistingState(block[key]) # state
         THEN MapPut(block, DerivedKey(key, state), spec)
         ELSE MapPut(block, key, spec)

\* one iteration of the loop over self.elements_cache.items()
MergeOne(block, key, spec, state) ==
    IF key \notin DOMAIN block THEN MapPut(block, key, spec)
    ELSE IF ExistingState(block[key]) # state
         THEN MapPut(block, DerivedKey(key, state), spec)
         ELSE block

RECURSIVE MergeElements(_, _, _)
MergeElements(block, cache, state) ==
    IF cache = <<>> THEN block
    ELSE MergeElements(MergeOne(block, Head(cache).key, Head(cache).spec, state),
                       Tail(cache), state)

\* windows_block of save_elements
MergeWindows(windows, window_name, title_re) ==
    IF window_name \in DOMAIN windows THEN windows
    ELSE MapPut(windows, window_name,
                [locators |-> <<[title_re |-> IF title_re # None THEN title_re
                                              ELSE ".*"]>>])

\* final_doc of save_elements
MergeDocument(doc, cache, window_name, title_re, state, backend) ==
    [app |-> IF "backend" \in DOMAIN doc.app THEN doc.app
             ELSE MapPut(doc.app, "backend", backend),
     windows |-> MergeWindows(doc.windows, window_name, title_re),
     elements |-> MergeElements(doc.elements, cache, state)]

\* the document read when elements.yaml does not exist
EmptyDocument == [app |-> EmptyMap, windows |-> EmptyMap, elements |-> EmptyMap]

\* the file at scenario_out_path: missing, holding {"steps": st}, or opened
\* for writing and left without a complete document
NoFile == [exists |-> FALSE]
ScenarioFile(st) == [exists |-> TRUE, steps |-> st]
TruncatedFile == [exists |-> TRUE, truncated |-> TRUE]

\* no stop has been requested yet
NoSnapshot == [taken |-> FALSE]

\* self.debug_json_out: debug snapshots are not requested
DebugJsonOut == None

(***************************************************************************)
(* State                                                                   *)
(***************************************************************************)
VARIABLES
    steps,               \* self.steps
    elements_cache,      \* self.elements_cache
    typing_element_key,  \* self._typing_element_key
    typing_buffer,       \* self._typing_buffer
    inactive,            \* time.time() - self._last_action_time > self._typing_timeout
    typing_lock,         \* holder of self._typing_lock, or "free"
    recording,           \* self._recording
    stopping,            \* self._stopping
    stop_requested,      \* self._stop_requested
    stop_event,          \* self._stop_event
    stop_hotkey_pressed, \* self._stop_hotkey_pressed
    listeners_running,   \* the pynput listeners are started and not stopped
    mods,                \* the four modifier flags
    state,               \* self.state, the session's state label
    pc,                  \* position of every thread
    mouse,               \* locals of the running _on_mouse_click
    kbd,                 \* locals of the running _on_key_press
    persisted,           \* the document stored at elements_yaml_path
    scenario_file,       \* the file at scenario_out_path
    nevents,             \* input events delivered so far
    script,              \* input events still to be delivered, when scripted
    missing,             \* the dependency that cannot be imported, or None
    \* history variables
    step_meta,           \* for every step: who appended it and when
    stop_issued,         \* a stop request has been issued
    stop_snapshot,       \* the session when the stop was requested
    accepted,            \* the characters appended to the typing buffer
    accepted_on,         \* for every accepted character: the key it was typed on
    resolved,            \* (element info, key) of every finished resolution
    persisted_pre        \* the document before the last merge

vars == <<steps, elements_cache, typing_element_key, typing_buffer, inactive,
          typing_lock, recording, stopping, stop_requested, stop_event,
          stop_hotkey_pressed, listeners_running, mods, state, pc, mouse, kbd,
          persisted, scenario_file, nevents, script, missing, step_meta,
          stop_issued,
          stop_snapshot,
          accepted, accepted_on, resolved, persisted_pre>>

Threads == {"mouse", "keyboard", "flush", "hotkey", "main"}

\* self.window_name, self.window_title_re and self.backend
WindowName == "main"
WindowTitleRe == None
Backend == "uia"

MouseIdle == [attempt |-> 0, info |-> NoInfo, key |-> None, late |-> FALSE,
              pending |-> <<>>, pending_key |-> None, nsteps |-> 0,
              hit |-> NoHit, refined |-> 0]

KbdIdle == [char |-> None, hotkey |-> None, info |-> NoInfo, key |-> None,
            late |-> FALSE, pending |-> <<>>, pending_key |-> None,
            nsteps |-> 0]

\* the document the general specification starts from: one entry recorded
\* in the session's state and customised by the operator, one entry recorded
\* in another state
CustomSpec == [window |-> "main", when |-> [state |-> "default"],
               locators |-> <<ByAutomationId("login")>>]
OtherStateSpec == [window |-> "main", when |-> [state |-> "loggedIn"],
                   locators |-> <<ByName("usernameField")>>]

InitialDocument ==
    [app |-> MapPut(EmptyMap, "backend", "uia"),
     windows |-> EmptyMap,
     elements |-> MapPut(MapPut(EmptyMap, "loginButton", CustomSpec),
                         "usernameField", OtherStateSpec)]

\* the fields as Recorder.__init__ sets them, with the main thread at main
InitFields(main) ==
    /\ steps = <<>>
    /\ elements_cache = <<>>
    /\ typing_element_key = None
    /\ typing_buffer = <<>>
    /\ inactive = TRUE
    /\ typing_lock = "free"
    /\ recording = FALSE
    /\ stopping = FALSE
    /\ stop_requested = FALSE
    /\ stop_event = FALSE
    /\ stop_hotkey_pressed = FALSE
    /\ listeners_running = FALSE
    /\ mods = NoModifiers
    /\ pc = [t \in Threads |->
                CASE t = "mouse" -> "m_idle"
                  [] t = "keyboard" -> "k_idle"
                  [] t = "flush" -> "f_unstarted"
                  [] t = "hotkey" -> "h_unstarted"
                  [] t = "main" -> main]
    /\ mouse = MouseIdle
    /\ kbd = KbdIdle
    /\ scenario_file = NoFile
    /\ nevents = 0
    /\ step_meta = <<>>
    /\ stop_issued = FALSE
    /\ stop_snapshot = NoSnapshot
    /\ accepted = <<>>
    /\ accepted_on = <<>>
    /\ resolved = {}

\* the state after Recorder.__init__: every dependency was imported
InitRecorder ==
    /\ InitFields("created")
    /\ missing = None

Init ==
    /\ InitRecorder
    /\ state = "default"
    /\ persisted = InitialDocument
    /\ persisted_pre = InitialDocument
    /\ script = <<>>

Goto(t, l) == pc' = [pc EXCEPT ![t] = l]

\* the record kept for a step appended by thread t
Meta(t, step) ==
    [by |-> t, late |-> stop_issued,
     known |-> IF IsClick(step) THEN step.click.element \in CacheKeys(elements_cache)
               ELSE IF IsType(step) THEN step.type.element \in CacheKeys(elements_cache)
               ELSE TRUE]

\* self.steps.append(step) by thread t
AppendStep(t, step) ==
    /\ steps' = Append(steps, step)
    /\ step_meta' = Append(step_meta, Meta(t, step))

\* _flush_typing_unsafe run by thread t, which holds the lock
FlushTypingUnsafe(t) ==
    /\ steps' = FlushedSteps(steps, typing_buffer, typing_element_key)
    /\ step_meta' = IF FlushEmits(typing_buffer, typing_element_key)
                    THEN Append(step_meta,
                                Meta(t, TypeStep(typing_element_key, "")))
                    ELSE step_meta
    /\ typing_buffer' = FlushedBuffer(typing_buffer, typing_element_key)
    /\ typing_element_key' = FlushedKey(typing_buffer, typing_element_key)

\* a lock that is entered without waiting for its holder
AcquireUnlocked(t) == typing_lock' = t

\* with self._typing_lock: entered by thread t
Acquire(t) == typing_lock = "free" /\ typing_lock' = t

\* a with block that is left without releasing the lock
ReleaseKept(t) == typing_lock = t /\ typing_lock' = t

\* the end of the with block entered by thread t
Release(t) == typing_lock = t /\ typing_lock' = "free"

\* no listener callback is running
CallbacksIdle == pc["mouse"] = "m_idle" /\ pc["keyboard"] = "k_idle"

\* the session at the first stop request: whether every delivered event
\* had been handled and, when so, the trigger and the step list and element
\* cache that the events delivered so far and the flush of stop() amount to
Snapshot(trigger) ==
    IF stop_snapshot.taken THEN stop_snapshot
    ELSE IF ~CallbacksIdle THEN [taken |-> TRUE, idle |-> FALSE]
    ELSE [taken |-> TRUE, idle |-> TRUE, trigger |-> trigger,
          steps |-> FlushedSteps(steps, typing_buffer, typing_element_key),
          cache |-> elements_cache]


\* what every action that is not the delivery of an input event leaves alone
NoEvent == UNCHANGED <<nevents, script, missing>>

Flags == <<recording, stopping, stop_requested, stop_event,
           stop_hotkey_pressed, listeners_running, stop_issued,
           stop_snapshot>>
TypingState == <<typing_element_key, typing_buffer>>
\* the record of the characters _handle_typing has buffered
Accepted == <<accepted, accepted_on>>
Output == <<steps, step_meta>>
Files == <<persisted, persisted_pre, scenario_file>>

(***************************************************************************)
(* The mouse listener thread: _on_mouse_click                              *)
(***************************************************************************)
\* the guard at the top of the callback
MouseClick(pressed) ==
    /\ pc["mouse"] = "m_idle"
    /\ listeners_running
    /\ IF ~recording \/ ~pressed \/ stopping
       THEN UNCHANGED <<pc, mouse>>
       ELSE /\ Goto("mouse", "m_flush")
            /\ mouse' = [MouseIdle EXCEPT !.late = stop_issued,
                                          !.pending = typing_buffer,
                                          !.pending_key = typing_element_key,
                                          !.nsteps = Len(steps)]
    /\ UNCHANGED <<Output, elements_cache, TypingState, inactive, typing_lock,
                   Flags, mods, state, kbd, Files, Accepted, resolved>>

\* self._flush_typing(): with self._typing_lock
MouseFlushAcquire ==
    /\ pc["mouse"] = "m_flush"
    /\ Acquire("mouse")
    /\ Goto("mouse", "m_flushing")
    /\ NoEvent
    /\ UNCHANGED <<Output, elements_cache, TypingState, inactive, Flags, mods,
                   state, mouse, kbd, Files, Accepted, resolved>>

\* a click handler that does not flush
MouseFlushSkipped ==
    /\ pc["mouse"] = "m_flushing"
    /\ Release("mouse")
    /\ Goto("mouse", "m_capture")
    /\ NoEvent
    /\ UNCHANGED <<Output, TypingState, elements_cache, inactive, Flags, mods,
                   state, mouse, kbd, Files, Accepted, resolved>>

MouseFlush ==
    /\ pc["mouse"] = "m_flushing"
    /\ FlushTypingUnsafe("mouse")
    /\ Release("mouse")
    /\ Goto("mouse", "m_capture")
    /\ NoEvent
    /\ UNCHANGED <<elements_cache, inactive, Flags, mods, state, mouse, kbd,
                   Files, Accepted, resolved>>

\* a retry loop that falls back to the focused element after its last miss
MouseCaptureMissUsesFocus ==
    /\ pc["mouse"] = "m_capture"
    /\ IF mouse.attempt + 1 < CaptureAttempts
       THEN /\ mouse' = [mouse EXCEPT !.attempt = @ + 1]
            /\ UNCHANGED <<pc, elements_cache, resolved>>
       ELSE /\ mouse' = [mouse EXCEPT !.info = UsernameField,
                                      !.key = "usernameField"]
            /\ elements_cache' =
                  CachePut(elements_cache, "usernameField",
                           MakeSpec(WindowName, state,
                                    MakeLocatorCandidates(UsernameField)))
            /\ resolved' = resolved \cup {<<UsernameField, "usernameField">>}
            /\ Goto("mouse", "m_append")
    /\ NoEvent
    /\ UNCHANGED <<Output, TypingState, inactive, typing_lock, Flags, mods,
                   state, kbd, Files, Accepted>>

\* one pass of the retry loop in which _capture_element_at_point returns
\* None: the next pass, or the return after the last one
MouseCaptureMiss ==
    /\ pc["mouse"] = "m_capture"
    /\ IF mouse.attempt + 1 < CaptureAttempts
       THEN /\ mouse' = [mouse EXCEPT !.attempt = @ + 1]
            /\ UNCHANGED pc
       ELSE /\ mouse' = MouseIdle
            /\ Goto("mouse", "m_idle")
    /\ NoEvent
    /\ UNCHANGED <<Output, elements_cache, TypingState, inactive, typing_lock,
                   Flags, mods, state, kbd, Files, Accepted, resolved>>

\* the pass in which _capture_element_at_point returns info, and
\* _ensure_element up to the choice of the key
MouseCapture(info) ==
    /\ pc["mouse"] = "m_capture"
    /\ mouse' = [mouse EXCEPT !.info = info,
                              !.key = EnsureKey(elements_cache, info)]
    /\ IF FindExisting(elements_cache, Candidates(info)) # None
       THEN /\ Goto("mouse", "m_append")
            /\ resolved' = resolved \cup
                   {<<info, EnsureKey(elements_cache, info)>>}
       ELSE /\ Goto("mouse", "m_store")
            /\ UNCHANGED resolved
    /\ NoEvent
    /\ UNCHANGED <<Output, elements_cache, TypingState, inactive, typing_lock,
                   Flags, mods, state, kbd, Files, Accepted>>

\* the pass in which _capture_element_at_point gets the node at the point:
\* _refine_element, extract_control_info, and _ensure_element up to the
\* choice of the key
MouseCaptureAtPoint ==
    /\ pc["mouse"] = "m_capture"
    /\ \E hit \in HitTests :
          LET refined == RefineElement(hit)
              info == ExtractControlInfo(hit.nodes[refined])
          IN  /\ mouse' = [mouse EXCEPT !.hit = hit, !.refined = refined,
                                        !.info = info,
                                        !.key = EnsureKey(elements_cache, info)]
              /\ IF FindExisting(elements_cache, Candidates(info)) # None
                 THEN /\ Goto("mouse", "m_append")
                      /\ resolved' = resolved \cup
                             {<<info, EnsureKey(elements_cache, info)>>}
                 ELSE /\ Goto("mouse", "m_store")
                      /\ UNCHANGED resolved
    /\ NoEvent
    /\ UNCHANGED <<Output, elements_cache, TypingState, inactive, typing_lock,
                   Flags, mods, state, kbd, Files, Accepted>>

\* self.elements_cache[elem_key] = spec
MouseStore ==
    /\ pc["mouse"] = "m_store"
    /\ elements_cache' = CachePut(elements_cache, mouse.key,
                                  MakeSpec(WindowName, state, Candidates(mouse.info)))
    /\ resolved' = resolved \cup {<<mouse.info, mouse.key>>}
    /\ Goto("mouse", "m_append")
    /\ NoEvent
    /\ UNCHANGED <<Output, TypingState, inactive, typing_lock, Flags, mods,
                   state, mouse, kbd, Files, Accepted>>

\* self.steps.append({"click": {"element": elem_key}})
\* self._last_action_time = time.time()
MouseAppend ==
    /\ pc["mouse"] = "m_append"
    /\ AppendStep("mouse", ClickStep(mouse.key))
    /\ inactive' = FALSE
    /\ mouse' = MouseIdle
    /\ Goto("mouse", "m_idle")
    /\ NoEvent
    /\ UNCHANGED <<elements_cache, TypingState, typing_lock, Flags, mods,
                   state, kbd, Files, Accepted, resolved>>

(***************************************************************************)
(* The keyboard listener thread: _on_key_press, _on_key_release            *)
(***************************************************************************)
\* a callback that does not recognise the stop combination
IsStopCombinationNever(m, key) == FALSE

\* the stop combination, which the callback suppresses
IsStopCombination(m, key) == m.ctrl /\ m.shift /\ key.name \in {"f12", "end"}

\* a callback that buffers every character, whatever modifiers are held
KeyPressBuffersUnderModifiers(key) ==
    /\ pc["keyboard"] = "k_idle"
    /\ listeners_running
    /\ IF stop_requested \/ ~recording \/ stopping
       THEN UNCHANGED <<pc, kbd, mods>>
       ELSE LET m == TrackModifier(mods, key, TRUE)
                char == GetChar(key)
            IN  /\ mods' = m
                /\ IF char # None
                   THEN /\ kbd' = [KbdIdle EXCEPT !.char = char,
                                                  !.late = stop_issued]
                        /\ Goto("keyboard", "k_capture")
                   ELSE UNCHANGED <<pc, kbd>>
    /\ UNCHANGED <<Output, elements_cache, TypingState, inactive, typing_lock,
                   Flags, state, mouse, Files, Accepted, resolved>>

\* the guards, the modifier tracking and the choice of the branch
KeyPress(key) ==
    /\ pc["keyboard"] = "k_idle"
    /\ listeners_running
    /\ IF stop_requested \/ ~recording \/ stopping
       THEN UNCHANGED <<pc, kbd, mods>>
       ELSE LET m == TrackModifier(mods, key, TRUE)
                hotkey_str == FormatHotkey(m, key)
                char == GetChar(key)
            IN  /\ mods' = m
                /\ IF IsStopCombination(m, key)
                   THEN UNCHANGED <<pc, kbd>>
                   ELSE IF /\ (m.ctrl \/ m.alt \/ m.win)
                           /\ ~IsModifierKey(key)
                           /\ hotkey_str # None
                        THEN /\ kbd' = [KbdIdle EXCEPT
                                             !.hotkey = hotkey_str,
                                             !.late = stop_issued,
                                             !.pending = typing_buffer,
                                             !.pending_key = typing_element_key,
                                             !.nsteps = Len(steps)]
                             /\ Goto("keyboard", "k_hk_flush")
                        ELSE IF char # None /\ ~(m.ctrl \/ m.alt \/ m.win)
                             THEN /\ kbd' = [KbdIdle EXCEPT !.char = char,
                                                            !.late = stop_issued]
                                  /\ Goto("keyboard", "k_capture")
                             ELSE UNCHANGED <<pc, kbd>>
    /\ UNCHANGED <<Output, elements_cache, TypingState, inactive, typing_lock,
                   Flags, state, mouse, Files, Accepted, resolved>>

KeyRelease(key) ==
    /\ pc["keyboard"] = "k_idle"
    /\ listeners_running
    /\ mods' = TrackModifier(mods, key, FALSE)
    /\ UNCHANGED <<Output, elements_cache, TypingState, inactive, typing_lock,
                   Flags, state, pc, mouse, kbd, Files, Accepted, resolved>>

\* the hotkey branch: self._flush_typing()
KeyHotkeyFlushAcquire ==
    /\ pc["keyboard"] = "k_hk_flush"
    /\ Acquire("keyboard")
    /\ Goto("keyboard", "k_hk_flushing")
    /\ NoEvent
    /\ UNCHANGED <<Output, elements_cache, TypingState, inactive, Flags, mods,
                   state, mouse, kbd, Files, Accepted, resolved>>

\* a hotkey branch that does not flush
KeyHotkeyFlushSkipped ==
    /\ pc["keyboard"] = "k_hk_flushing"
    /\ Release("keyboard")
    /\ Goto("keyboard", "k_hk_append")
    /\ NoEvent
    /\ UNCHANGED <<Output, TypingState, elements_cache, inactive, Flags, mods,
                   state, mouse, kbd, Files, Accepted, resolved>>

KeyHotkeyFlush ==
    /\ pc["keyboard"] = "k_hk_flushing"
    /\ FlushTypingUnsafe("keyboard")
    /\ Release("keyboard")
    /\ Goto("keyboard", "k_hk_append")
    /\ NoEvent
    /\ UNCHANGED <<elements_cache, inactive, Flags, mods, state, mouse, kbd,
                   Files, Accepted, resolved>>

\* self.steps.append({"hotkey": {"keys": hotkey_str}})
\* self._last_action_time = time.time()
KeyHotkeyAppend ==
    /\ pc["keyboard"] = "k_hk_append"
    /\ AppendStep("keyboard", HotkeyStep(kbd.hotkey))
    /\ inactive' = FALSE
    /\ kbd' = KbdIdle
    /\ Goto("keyboard", "k_idle")
    /\ NoEvent
    /\ UNCHANGED <<elements_cache, TypingState, typing_lock, Flags, mods,
                   state, mouse, Files, Accepted, resolved>>

\* a miss of the focus query that ends the recording
KeyCaptureMissAborts ==
    /\ pc["keyboard"] = "k_capture"
    /\ kbd' = KbdIdle
    /\ recording' = FALSE
    /\ Goto("keyboard", "k_idle")
    /\ NoEvent
    /\ UNCHANGED <<Output, elements_cache, TypingState, inactive, typing_lock,
                   stopping, stop_requested, stop_event, stop_hotkey_pressed,
                   listeners_running, stop_issued, stop_snapshot, mods, state,
                   mouse, Files, Accepted, resolved>>

\* _handle_typing: _capture_focused_element returns None
KeyCaptureMiss ==
    /\ pc["keyboard"] = "k_capture"
    /\ kbd' = KbdIdle
    /\ Goto("keyboard", "k_idle")
    /\ NoEvent
    /\ UNCHANGED <<Output, elements_cache, TypingState, inactive, typing_lock,
                   Flags, mods, state, mouse, Files, Accepted, resolved>>

\* _handle_typing: _capture_focused_element returns info, and
\* _ensure_element up to the choice of the key
KeyCapture(info) ==
    /\ pc["keyboard"] = "k_capture"
    /\ kbd' = [kbd EXCEPT !.info = info,
                          !.key = EnsureKey(elements_cache, info)]
    /\ IF FindExisting(elements_cache, Candidates(info)) # None
       THEN /\ Goto("keyboard", "k_lock")
            /\ resolved' = resolved \cup
                   {<<info, EnsureKey(elements_cache, info)>>}
       ELSE /\ Goto("keyboard", "k_store")
            /\ UNCHANGED resolved
    /\ NoEvent
    /\ UNCHANGED <<Output, elements_cache, TypingState, inactive, typing_lock,
                   Flags, mods, state, mouse, Files, Accepted>>

KeyStore ==
    /\ pc["keyboard"] = "k_store"
    /\ elements_cache' = CachePut(elements_cache, kbd.key,
                                  MakeSpec(WindowName, state, Candidates(kbd.info)))
    /\ resolved' = resolved \cup {<<kbd.info, kbd.key>>}
    /\ Goto("keyboard", "k_lock")
    /\ NoEvent
    /\ UNCHANGED <<Output, TypingState, inactive, typing_lock, Flags, mods,
                   state, mouse, kbd, Files, Accepted>>

\* with self._typing_lock:
KeyTypingAcquire ==
    /\ pc["keyboard"] = "k_lock"
    /\ Acquire("keyboard")
    /\ Goto("keyboard", "k_locked")
    /\ NoEvent
    /\ UNCHANGED <<Output, elements_cache, TypingState, inactive, Flags, mods,
                   state, mouse, kbd, Files, Accepted, resolved>>

\* a typing handler that never sees the element change
ElementChangedNever(cur, elem_key) == FALSE

\* whether _handle_typing flushes the old span before buffering
ElementChanged(cur, elem_key) == cur # None /\ cur # "" /\ cur # elem_key

\* the body of the with block of _handle_typing
KeyTyping ==
    /\ pc["keyboard"] = "k_locked"
    /\ LET change == ElementChanged(typing_element_key, kbd.key)
           buf == IF change
                  THEN FlushedBuffer(typing_buffer, typing_element_key)
                  ELSE typing_buffer
       IN  /\ steps' = IF change
                       THEN FlushedSteps(steps, typing_buffer, typing_element_key)
                       ELSE steps
           /\ step_meta' = IF change /\ FlushEmits(typing_buffer, typing_element_key)
                           THEN Append(step_meta,
                                       Meta("keyboard",
                                            TypeStep(typing_element_key, "")))
                           ELSE step_meta
           /\ typing_element_key' = kbd.key
           /\ typing_buffer' = Append(buf, kbd.char)
    /\ accepted' = Append(accepted, kbd.char)
    /\ accepted_on' = Append(accepted_on, kbd.key)
    /\ inactive' = FALSE
    /\ Release("keyboard")
    /\ kbd' = KbdIdle
    /\ Goto("keyboard", "k_idle")
    /\ NoEvent
    /\ UNCHANGED <<elements_cache, Flags, mods, state, mouse, Files, resolved>>

(***************************************************************************)
(* The flush-checker thread: _flush_checker                                *)
(***************************************************************************)
\* while not self._stop_event.is_set(): time.sleep(0.5)
FlushCheckerLoop ==
    /\ pc["flush"] = "f_loop"
    /\ Goto("flush", IF stop_event THEN "f_done" ELSE "f_wait")
    /\ NoEvent
    /\ UNCHANGED <<Output, elements_cache, TypingState, inactive, typing_lock,
                   Flags, mods, state, mouse, kbd, Files, Accepted, resolved>>

FlushCheckerAcquire ==
    /\ pc["flush"] = "f_wait"
    /\ Acquire("flush")
    /\ Goto("flush", "f_locked")
    /\ NoEvent
    /\ UNCHANGED <<Output, elements_cache, TypingState, inactive, Flags, mods,
                   state, mouse, kbd, Files, Accepted, resolved>>

\* an inactivity test that forgets the timeout
TimedOutAlways(buf, idle) == buf # <<>>

\* an inactivity test that never sees the timeout pass
TimedOutNever(buf, idle) == FALSE

\* the inactivity test of _flush_checker
TimedOut(buf, idle) == buf # <<>> /\ idle

FlushCheckerTick ==
    /\ pc["flush"] = "f_locked"
    /\ IF TimedOut(typing_buffer, inactive)
       THEN FlushTypingUnsafe("flush")
       ELSE UNCHANGED <<Output, TypingState>>
    /\ Release("flush")
    /\ Goto("flush", "f_loop")
    /\ NoEvent
    /\ UNCHANGED <<elements_cache, inactive, Flags, mods, state, mouse, kbd,
                   Files, Accepted, resolved>>

\* the clock passes self._last_action_time + self._typing_timeout
Tick ==
    /\ ~inactive
    /\ inactive' = TRUE
    /\ NoEvent
    /\ UNCHANGED <<Output, elements_cache, TypingState, typing_lock, Flags,
                   mods, state, pc, mouse, kbd, Files, Accepted, resolved>>

(***************************************************************************)
(* Recorder.stop, run by the thread t that called it                       *)
(***************************************************************************)
\* where thread t continues when stop() returns
AfterStop(t) == IF t = "main" THEN "save_scenario" ELSE "h_done"

Quiet == UNCHANGED <<Output, elements_cache, TypingState, inactive, typing_lock,
                     mods, state, mouse, kbd, Files, Accepted, resolved>>

\* if not self._recording: return
\* self._stopping = True
StopEnter(t, from) ==
    /\ pc[t] = from
    /\ IF recording
       THEN /\ stopping' = TRUE
            /\ stop_issued' = TRUE
            /\ stop_snapshot' = Snapshot("stop")
            /\ Goto(t, "stop_set_recording")
       ELSE /\ UNCHANGED <<stopping, stop_issued, stop_snapshot>>
            /\ Goto(t, AfterStop(t))
    /\ NoEvent
    /\ Quiet
    /\ UNCHANGED <<recording, stop_requested, stop_event, stop_hotkey_pressed,
                   listeners_running>>

\* self._recording = False
\* self._stop_event.set()
StopSetRecording(t) ==
    /\ pc[t] = "stop_set_recording"
    /\ recording' = FALSE
    /\ stop_event' = TRUE
    /\ Goto(t, "stop_flush")
    /\ NoEvent
    /\ Quiet
    /\ UNCHANGED <<stopping, stop_requested, stop_hotkey_pressed,
                   listeners_running, stop_issued,
                   stop_snapshot>>

\* self._flush_typing()
StopFlushAcquire(t) ==
    /\ pc[t] = "stop_flush"
    /\ Acquire(t)
    /\ Goto(t, "stop_flushing")
    /\ NoEvent
    /\ UNCHANGED <<Output, elements_cache, TypingState, inactive, Flags, mods,
                   state, mouse, kbd, Files, Accepted, resolved>>

StopFlush(t) ==
    /\ pc[t] = "stop_flushing"
    /\ FlushTypingUnsafe("stop")
    /\ Release(t)
    /\ Goto(t, "stop_listeners")
    /\ NoEvent
    /\ UNCHANGED <<elements_cache, inactive, Flags, mods, state, mouse, kbd,
                   Files, Accepted, resolved>>

\* self._keyboard_listener.stop(); self._mouse_listener.stop()
StopListeners(t) ==
    /\ pc[t] = "stop_listeners"
    /\ listeners_running' = FALSE
    /\ Goto(t, AfterStop(t))
    /\ NoEvent
    /\ Quiet
    /\ UNCHANGED <<recording, stopping, stop_requested, stop_event,
                   stop_hotkey_pressed, stop_issued,
                   stop_snapshot>>

(***************************************************************************)
(* The stop-hotkey thread: _hotkey_listener_thread                         *)
(***************************************************************************)
\* a message loop without an exit condition
HotkeyLoopRunsForever == TRUE

\* the condition of the message loop
HotkeyLoopRuns == recording /\ ~stop_event

\* the loop condition fails
HotkeyLoopExit ==
    /\ pc["hotkey"] = "h_loop"
    /\ ~HotkeyLoopRuns
    /\ Goto("hotkey", "h_done")
    /\ NoEvent
    /\ Quiet
    /\ UNCHANGED Flags

\* PeekMessage returns WM_HOTKEY:
\* self._stop_hotkey_pressed = True; self._stop_requested = True
HotkeyDetected ==
    /\ pc["hotkey"] = "h_loop"
    /\ HotkeyLoopRuns
    /\ stop_hotkey_pressed' = TRUE
    /\ stop_requested' = TRUE
    /\ stop_issued' = TRUE
    /\ stop_snapshot' = Snapshot("hotkey")
    /\ Goto("hotkey", "h_set_stopping")
    /\ NoEvent
    /\ Quiet
    /\ UNCHANGED <<recording, stopping, stop_event, listeners_running>>

\* self._stopping = True, then self.stop()
HotkeySetStopping ==
    /\ pc["hotkey"] = "h_set_stopping"
    /\ stopping' = TRUE
    /\ Goto("hotkey", "stop_check")
    /\ NoEvent
    /\ Quiet
    /\ UNCHANGED <<recording, stop_requested, stop_event, stop_hotkey_pressed,
                   listeners_running, stop_issued,
                   stop_snapshot>>

(***************************************************************************)
(* The main thread: Recorder.start, record_session, the save methods       *)
(***************************************************************************)
\* Recorder.start
Start ==
    /\ pc["main"] = "created"
    /\ recording' = TRUE
    /\ stopping' = FALSE
    /\ stop_event' = FALSE
    /\ listeners_running' = TRUE
    /\ pc' = [pc EXCEPT !["main"] = "waiting", !["hotkey"] = "h_loop",
                        !["flush"] = "f_loop"]
    /\ NoEvent
    /\ Quiet
    /\ UNCHANGED <<stop_requested, stop_hotkey_pressed, stop_issued,
                   stop_snapshot>>

\* a start() that resets the stop request with the other flags
RestartClearsStopRequest ==
    /\ pc["main"] = "save_scenario"
    /\ pc["flush"] = "f_done"
    /\ pc["hotkey"] = "h_done"
    /\ CallbacksIdle
    /\ recording' = TRUE
    /\ stopping' = FALSE
    /\ stop_event' = FALSE
    /\ stop_requested' = FALSE
    /\ listeners_running' = TRUE
    /\ pc' = [pc EXCEPT !["main"] = "waiting", !["hotkey"] = "h_loop",
                        !["flush"] = "f_loop"]
    /\ NoEvent
    /\ Quiet
    /\ UNCHANGED <<stop_hotkey_pressed, stop_issued, stop_snapshot>>

\* a user of the class calls recorder.start() again, after stop() has
\* returned and the threads of the session before have ended
Restart ==
    /\ pc["main"] = "save_scenario"
    /\ pc["flush"] = "f_done"
    /\ pc["hotkey"] = "h_done"
    /\ CallbacksIdle
    /\ recording' = TRUE
    /\ stopping' = FALSE
    /\ stop_event' = FALSE
    /\ listeners_running' = TRUE
    /\ pc' = [pc EXCEPT !["main"] = "waiting", !["hotkey"] = "h_loop",
                        !["flush"] = "f_loop"]
    /\ NoEvent
    /\ Quiet
    /\ UNCHANGED <<stop_requested, stop_hotkey_pressed, stop_issued,
                   stop_snapshot>>

\* while recorder._recording: time.sleep(0.5) ends
WaitLoopExit ==
    /\ pc["main"] = "waiting"
    /\ ~recording
    /\ Goto("main", "save_scenario")
    /\ NoEvent
    /\ Quiet
    /\ UNCHANGED Flags

\* except KeyboardInterrupt: recorder._stop_requested = True,
\* then recorder.stop()
KeyboardInterrupt ==
    /\ pc["main"] = "waiting"
    /\ stop_requested' = TRUE
    /\ stop_issued' = TRUE
    /\ stop_snapshot' = Snapshot("interrupt")
    /\ Goto("main", "stop_check")
    /\ NoEvent
    /\ Quiet
    /\ UNCHANGED <<recording, stopping, stop_event, stop_hotkey_pressed,
                   listeners_running>>

\* stop() called by thread t after a stop signal
StopCheck(t) == StopEnter(t, "stop_check")

\* a user of the class calls recorder.stop()
ExplicitStop == StopEnter("main", "waiting")

\* a user of the class calls recorder.stop() on a recorder that was never
\* started, and goes on to the save methods
StopBeforeStart == StopEnter("main", "created")

\* what a save that raises leaves at its path: the file as it was, when the
\* error comes before open(path, "w"), or a truncated file
FailedWrite(file, truncated) == {file, truncated}

\* the body of save_scenario; ok tells whether the write succeeds
WriteScenario(ok) ==
    IF ok THEN scenario_file' = ScenarioFile(steps)
    ELSE scenario_file' \in FailedWrite(scenario_file, TruncatedFile)

\* if recorder.steps: recorder.save_scenario(); an exception of the save
\* leaves the finally block
SaveScenario ==
    /\ pc["main"] = "save_scenario"
    /\ IF steps # <<>>
       THEN \E ok \in BOOLEAN :
               /\ WriteScenario(ok)
               /\ Goto("main", IF ok THEN "save_elements" ELSE "save_failed")
       ELSE /\ UNCHANGED scenario_file
            /\ Goto("main", "done")
    /\ NoEvent
    /\ UNCHANGED <<Output, elements_cache, TypingState, inactive, typing_lock,
                   Flags, mods, state, mouse, kbd, persisted, persisted_pre,
                   Accepted, resolved>>

\* the read-modify-write of save_elements on the file at elements_yaml_path
MergeIntoFile ==
    /\ persisted_pre' = persisted
    /\ persisted' = MergeDocument(persisted, elements_cache, WindowName,
                                  WindowTitleRe, state, Backend)

\* a save_elements that raises
MergeFails ==
    /\ persisted' \in FailedWrite(persisted, EmptyDocument)
    /\ UNCHANGED persisted_pre

\* recorder.save_elements(); save_debug_snapshots() is not called when
\* debug_json_out is None
SaveElements ==
    /\ pc["main"] = "save_elements"
    /\ \/ MergeIntoFile /\ Goto("main", "done")
       \/ MergeFails /\ Goto("main", "save_failed")
    /\ NoEvent
    /\ UNCHANGED <<Output, elements_cache, TypingState, inactive, typing_lock,
                   Flags, mods, state, mouse, kbd, scenario_file, Accepted,
                   resolved>>

(***************************************************************************)
(* The specifications                                                      *)
(***************************************************************************)
\* the OS hook delivers one more input event, of at most max
Deliver(max) == nevents < max /\ nevents' = nevents + 1 /\ UNCHANGED <<script, missing>>

\* the keys, and the controls under the pointer and in focus
Keys == {KeyCode("a"), KeyCode("b"), KeyEnum("ctrl_l")}
PointInfos == {LoginButton, Anonymous}
FocusInfos == {UsernameField, Anonymous}

StopThreads == {"main", "hotkey"}

\* the OS hooks call a listener callback; button releases and presses and
\* releases of modifier keys are not counted
Events(max) ==
    \/ \E pressed \in BOOLEAN :
          /\ MouseClick(pressed)
          /\ IF pressed THEN Deliver(max) ELSE NoEvent
    \/ \E key \in Keys :
          /\ KeyPress(key)
          /\ IF IsModifierKey(key) THEN NoEvent ELSE Deliver(max)
    \/ \E key \in {k \in Keys : IsModifierKey(k)} : KeyRelease(key) /\ NoEvent

\* the steps of the two listener threads after the guard of the callback
Handlers(points, focus) ==
    \/ MouseFlushAcquire
    \/ MouseFlush
    \/ \E info \in points : MouseCapture(info)
    \/ MouseStore
    \/ MouseAppend
    \/ KeyHotkeyFlushAcquire
    \/ KeyHotkeyFlush
    \/ KeyHotkeyAppend
    \/ \E info \in focus : KeyCapture(info)
    \/ KeyStore
    \/ KeyTypingAcquire
    \/ KeyTyping

\* the accessibility tree has no element for the point or the focus
CaptureMisses ==
    \/ MouseCaptureMiss
    \/ KeyCaptureMiss

FlushChecker ==
    \/ FlushCheckerLoop
    \/ FlushCheckerAcquire
    \/ FlushCheckerTick

Stop ==
    \/ \E t \in StopThreads : StopCheck(t)
    \/ \E t \in StopThreads : StopSetRecording(t)
    \/ \E t \in StopThreads : StopFlushAcquire(t)
    \/ \E t \in StopThreads : StopFlush(t)
    \/ \E t \in StopThreads : StopListeners(t)
    \/ HotkeyLoopExit
    \/ HotkeyDetected
    \/ HotkeySetStopping
    \/ WaitLoopExit
    \/ KeyboardInterrupt
    \/ ExplicitStop

\* a session while it records: start(), the listeners, the flush-checker
Next ==
    \/ Start
    \/ Events(MaxEvents)
    \/ Handlers(PointInfos, FocusInfos)
    \/ CaptureMisses
    \/ FlushChecker
    \/ Tick

Spec == Init /\ [][Next]_vars

\* a whole session: start(), recording, the three stop triggers, the saving
\* of the outputs
NextSession ==
    \/ Start
    \/ Events(MaxSessionEvents)
    \/ Handlers(PointInfos, FocusInfos)
    \/ CaptureMisses
    \/ FlushChecker
    \/ Tick
    \/ Stop
    \/ SaveScenario
    \/ SaveElements

SpecSession == Init /\ [][NextSession]_vars

\* the OS hooks deliver an input event when the callbacks of the events
\* before it have returned and no stop has been requested
RunEvent(max) ==
    /\ CallbacksIdle
    /\ ~stop_issued
    /\ Events(max)

\* the stop protocol on the main thread, by stop() or by Ctrl+C, started
\* when the callbacks have returned
RunStop ==
    /\ CallbacksIdle
    /\ \/ ExplicitStop
       \/ KeyboardInterrupt
       \/ StopCheck("main")
       \/ StopSetRecording("main")
       \/ StopFlushAcquire("main")
       \/ StopFlush("main")
       \/ StopListeners("main")

\* a whole session, of at most max counted events, whose input events are
\* handled one after the other
Run(max) ==
    \/ Start
    \/ RunEvent(max)
    \/ Handlers(PointInfos, FocusInfos)
    \/ CaptureMisses
    \/ FlushChecker
    \/ Tick
    \/ RunStop
    \/ SaveScenario
    \/ SaveElements

NextRun == Run(MaxRunEvents)

SpecRun == Init /\ [][NextRun]_vars

(***************************************************************************)
(* A recording session under fair scheduling: a thread that can take a     *)
(* step takes one, and the clock advances.  The delivery of input events   *)
(* is not fair: the user may stop giving input at any moment.              *)
(***************************************************************************)
\* the steps of the mouse listener thread after the guard of the callback
MouseHandler(points) ==
    \/ MouseFlushAcquire
    \/ MouseFlush
    \/ \E info \in points : MouseCapture(info)
    \/ MouseCaptureMiss
    \/ MouseStore
    \/ MouseAppend

\* the hotkey branch of _on_key_press after the guards
HotkeyHandler ==
    \/ KeyHotkeyFlushAcquire
    \/ KeyHotkeyFlush
    \/ KeyHotkeyAppend

\* _handle_typing
TypingHandler(focus) ==
    \/ \E info \in focus : KeyCapture(info)
    \/ KeyCaptureMiss
    \/ KeyStore
    \/ KeyTypingAcquire
    \/ KeyTyping

\* the steps of the keyboard listener thread after the guards
KeyHandler ==
    \/ HotkeyHandler
    \/ TypingHandler(FocusInfos)

NextFair ==
    \/ Start
    \/ Events(MaxFairEvents)
    \/ MouseHandler(PointInfos)
    \/ KeyHandler
    \/ FlushChecker
    \/ Tick

\* the fairness of the threads that record
RecordingFairness ==
    /\ WF_vars(MouseHandler(PointInfos))
    /\ WF_vars(KeyHandler)
    /\ WF_vars(FlushChecker)
    /\ WF_vars(Tick)

SpecFair == Init /\ [][NextFair]_vars /\ RecordingFairness

(***************************************************************************)
(* The end of a session under fair scheduling: a click on the login button *)
(* and the typing of "a" into the user name field, the three stop          *)
(* triggers, stop() on the hotkey thread and on the main thread.  The      *)
(* triggers and the input are the user's and are not fair.                 *)
(***************************************************************************)
StopKeys == {KeyCode("a")}

\* the OS hooks call a listener callback, also after a stop request
StopEvents ==
    \/ MouseClick(TRUE) /\ Deliver(MaxStopEvents)
    \/ \E key \in StopKeys : KeyPress(key) /\ Deliver(MaxStopEvents)

\* the steps the hotkey thread takes by itself: stop() after the hotkey
\* message, and the end of the message loop
HotkeyThread ==
    \/ HotkeySetStopping
    \/ StopCheck("hotkey")
    \/ StopSetRecording("hotkey")
    \/ StopFlushAcquire("hotkey")
    \/ StopFlush("hotkey")
    \/ StopListeners("hotkey")
    \/ HotkeyLoopExit

\* the steps the main thread takes by itself: the end of the wait loop of
\* record_session, and stop() once it has been called
MainThread ==
    \/ WaitLoopExit
    \/ StopCheck("main")
    \/ StopSetRecording("main")
    \/ StopFlushAcquire("main")
    \/ StopFlush("main")
    \/ StopListeners("main")

NextStop ==
    \/ Start
    \/ StopEvents
    \/ MouseHandler({LoginButton})
    \/ TypingHandler({UsernameField})
    \/ FlushChecker
    \/ Tick
    \/ HotkeyDetected
    \/ KeyboardInterrupt
    \/ ExplicitStop
    \/ HotkeyThread
    \/ MainThread

\* the fairness of the threads of the session
StopFairness ==
    /\ WF_vars(MouseHandler({LoginButton}))
    /\ WF_vars(TypingHandler({UsernameField}))
    /\ WF_vars(FlushChecker)
    /\ WF_vars(HotkeyThread)
    /\ WF_vars(MainThread)

SpecStop == Init /\ [][NextStop]_vars /\ StopFairness

(***************************************************************************)
(* Every call of stop(): the calls of the session's end, and a call on a    *)
(* recorder that was never started                                          *)
(***************************************************************************)
NextStopCalls ==
    \/ NextStop
    \/ StopBeforeStart

SpecStopCalls == Init /\ [][NextStopCalls]_vars

(***************************************************************************)
(* Every caller of the flush at once: the callbacks, the flush-checker and  *)
(* a stop() called by a user of the class while events are being handled    *)
(***************************************************************************)
\* recorder.stop() on the main thread
MainStop ==
    \/ ExplicitStop
    \/ StopSetRecording("main")
    \/ StopFlushAcquire("main")
    \/ StopFlush("main")
    \/ StopListeners("main")

NextFlush ==
    \/ Start
    \/ Events(MaxFlushEvents)
    \/ Handlers({LoginButton}, FocusInfos)
    \/ FlushChecker
    \/ Tick
    \/ MainStop

SpecFlush == Init /\ [][NextFlush]_vars

(***************************************************************************)
(* The save methods called again by a user of the class, after the session *)
(* has ended or a save has raised                                          *)
(***************************************************************************)
AfterSession == {"done", "save_failed"}

\* where the main thread is after a call that returned or raised
Returned(ok) == IF ok THEN "done" ELSE "save_failed"

\* a save_scenario that empties the step list it has written
SaveScenarioCallDraining ==
    /\ pc["main"] \in AfterSession
    /\ \E ok \in BOOLEAN : WriteScenario(ok) /\ Goto("main", Returned(ok))
    /\ steps' = <<>>
    /\ step_meta' = <<>>
    /\ NoEvent
    /\ UNCHANGED <<elements_cache, TypingState, inactive, typing_lock,
                   Flags, mods, state, mouse, kbd, persisted, persisted_pre,
                   Accepted, resolved>>

\* recorder.save_scenario()
SaveScenarioCall ==
    /\ pc["main"] \in AfterSession
    /\ \E ok \in BOOLEAN : WriteScenario(ok) /\ Goto("main", Returned(ok))
    /\ NoEvent
    /\ UNCHANGED <<Output, elements_cache, TypingState, inactive, typing_lock,
                   Flags, mods, state, mouse, kbd, persisted, persisted_pre,
                   Accepted, resolved>>

\* recorder.save_elements()
SaveElementsRetry ==
    /\ pc["main"] \in AfterSession
    /\ \/ MergeIntoFile /\ Goto("main", Returned(TRUE))
       \/ MergeFails /\ Goto("main", Returned(FALSE))
    /\ NoEvent
    /\ UNCHANGED <<Output, elements_cache, TypingState, inactive, typing_lock,
                   Flags, mods, state, mouse, kbd, scenario_file, Accepted,
                   resolved>>

\* recorder.save_debug_snapshots(): returns None, debug_json_out being None
SaveDebugSnapshotsCall ==
    /\ pc["main"] \in AfterSession
    /\ DebugJsonOut = None
    /\ Goto("main", Returned(TRUE))
    /\ NoEvent
    /\ Quiet
    /\ UNCHANGED Flags

NextSave ==
    \/ Run(MaxSaveEvents)
    \/ SaveScenarioCall
    \/ SaveElementsRetry
    \/ SaveDebugSnapshotsCall

SpecSave == Init /\ [][NextSave]_vars

(***************************************************************************)
(* The record command from its start: the imports may have failed          *)
(***************************************************************************)
\* pywinauto is imported unconditionally by recorder.py; pynput and comtypes
\* are imported under try/except ImportError
Dependencies == {"pywinauto", "pynput", "comtypes"}

InitProcess ==
    /\ InitFields("uncreated")
    /\ missing \in Dependencies \cup {None}
    /\ state = "default"
    /\ persisted = InitialDocument
    /\ persisted_pre = InitialDocument
    /\ script = <<>>

\* a constructor that does not test COMTYPES_AVAILABLE
AfterConstructionUnchecked(dep) ==
    IF dep = "pywinauto" THEN "cli_error"
    ELSE IF dep = "pynput" THEN "import_error"
    ELSE "created"

\* where the record command gets to: the error exit of main() when
\* recorder.py could not be imported, the ImportError of Recorder.__init__,
\* or the constructed recorder
AfterConstruction(dep) ==
    IF dep = "pywinauto" THEN "cli_error"
    ELSE IF dep \in {"pynput", "comtypes"} THEN "import_error"
    ELSE "created"

\* main() for the record command, up to the return of Recorder.__init__
RecordCommand ==
    /\ pc["main"] = "uncreated"
    /\ Goto("main", AfterConstruction(missing))
    /\ NoEvent
    /\ Quiet
    /\ UNCHANGED Flags

NextProcess ==
    \/ RecordCommand
    \/ Run(MaxProcessEvents)

SpecProcess == InitProcess /\ [][NextProcess]_vars

(***************************************************************************)
(* The two listeners resolving any of the controls of ElementInfos, among   *)
(* them controls whose names normalise to the same key                      *)
(***************************************************************************)
NextResolve ==
    \/ Start
    \/ Events(MaxResolveEvents)
    \/ Handlers(ElementInfos, ElementInfos)
    \/ CaptureMisses
    \/ FlushChecker
    \/ Tick

SpecResolve == Init /\ [][NextResolve]_vars

(***************************************************************************)
(* The keyboard listener on its own, with every modifier key: the members  *)
(* of pynput's Key enum that the recorder names                            *)
(***************************************************************************)
ModifierKeys ==
    {KeyEnum(n) : n \in {"ctrl", "ctrl_l", "ctrl_r", "alt", "alt_l", "alt_r",
                         "shift", "shift_r", "cmd", "cmd_r"}}

OtherKeys == {KeyCode("a"), KeyEnum("f12")}

\* the keyboard hook calls _on_key_press or _on_key_release; presses and
\* releases of modifier keys are not counted
KeyEvents ==
    \/ \E key \in ModifierKeys : KeyPress(key) /\ NoEvent
    \/ \E key \in OtherKeys : KeyPress(key) /\ Deliver(MaxKeyEvents)
    \/ \E key \in ModifierKeys : KeyRelease(key) /\ NoEvent

\* the steps of the keyboard listener thread after the guards
KeyHandlers ==
    \/ KeyHotkeyFlushAcquire
    \/ KeyHotkeyFlush
    \/ KeyHotkeyAppend
    \/ \E info \in FocusInfos : KeyCapture(info)
    \/ KeyCaptureMiss
    \/ KeyStore
    \/ KeyTypingAcquire
    \/ KeyTyping

NextKeys ==
    \/ Start
    \/ KeyEvents
    \/ KeyHandlers

SpecKeys == Init /\ [][NextKeys]_vars


(***************************************************************************)
(* The keyboard listener and the stop-hotkey thread: the keys of the stop   *)
(* combination and a letter are pressed and released while the hotkey       *)
(* thread polls for WM_HOTKEY                                               *)
(***************************************************************************)
\* the keyboard hook calls _on_key_press or _on_key_release with the left
\* Ctrl key, the Shift key, "a" or F12
ChordEvents ==
    LET held == {KeyEnum("ctrl_l"), KeyEnum("shift")}
    IN  \/ \E key \in held : KeyPress(key) /\ NoEvent
        \/ \E key \in OtherKeys : KeyPress(key) /\ Deliver(MaxChordEvents)
        \/ \E key \in held : KeyRelease(key) /\ NoEvent

NextChord ==
    \/ Start
    \/ ChordEvents
    \/ KeyHandlers
    \/ HotkeyDetected
    \/ HotkeySetStopping
    \/ StopCheck("hotkey")
    \/ StopSetRecording("hotkey")
    \/ StopFlushAcquire("hotkey")
    \/ StopFlush("hotkey")
    \/ StopListeners("hotkey")

SpecChord == Init /\ [][NextChord]_vars

(***************************************************************************)
(* A recorder used through its class: start(), input, the three stop       *)
(* triggers, and start() called again after the stop                       *)
(***************************************************************************)
\* the OS hooks call a listener callback with a click, "a" or the left Ctrl
\* key
RestartEvents ==
    \/ MouseClick(TRUE) /\ Deliver(MaxRestartEvents)
    \/ \E key \in {KeyCode("a"), KeyEnum("ctrl_l")} :
          /\ KeyPress(key)
          /\ IF IsModifierKey(key) THEN NoEvent ELSE Deliver(MaxRestartEvents)

NextRestart ==
    \/ Start
    \/ Restart
    \/ RestartEvents
    \/ Handlers({LoginButton}, {UsernameField})
    \/ FlushChecker
    \/ Tick
    \/ Stop

SpecRestart == Init /\ [][NextRestart]_vars

(***************************************************************************)
(* The element merge on its own: elements are resolved one after the other *)
(* and save_elements() is called on a document drawn from Documents        *)
(***************************************************************************)
StateLabels == {"default", "loggedIn"}

\* an entry without a "when" block
NoWhenSpec == [window |-> "main", locators |-> <<ByName("legacy")>>]

DocumentKeys == {"loginButton", "element", "loginButton__default"}
DocumentEntries == {CustomSpec, OtherStateSpec, NoWhenSpec}

CustomWindow == [locators |-> <<[title_re |-> "MyApp.*"]>>]

\* the documents elements.yaml may hold; the empty one also stands for a
\* missing file
Documents ==
    {[app |-> a, windows |-> w, elements |-> e] :
        a \in {MapPut(EmptyMap, "backend", "uia")},
        w \in {EmptyMap, MapPut(EmptyMap, "main", CustomWindow)},
        e \in UNION {[ks -> DocumentEntries] : ks \in SUBSET DocumentKeys}}

MergeInfos == {LoginButton, UsernameField, Anonymous}

InitMerge ==
    /\ InitRecorder
    /\ state \in StateLabels
    /\ persisted \in Documents
    /\ persisted_pre = persisted
    /\ script = <<>>

\* one whole call of _ensure_element(info), no other thread running
EnsureElement(info) ==
    /\ pc["main"] = "created"
    /\ nevents < MaxResolutions
    /\ nevents' = nevents + 1
    /\ elements_cache' =
          IF FindExisting(elements_cache, Candidates(info)) # None
          THEN elements_cache
          ELSE CachePut(elements_cache, EnsureKey(elements_cache, info),
                        MakeSpec(WindowName, state, Candidates(info)))
    /\ resolved' = resolved \cup {<<info, EnsureKey(elements_cache, info)>>}
    /\ UNCHANGED <<Output, TypingState, inactive, typing_lock, Flags, mods,
                   state, pc, mouse, kbd, Files, Accepted, script, missing>>

\* recorder.save_elements() called by a user of the class
SaveElementsCall ==
    /\ pc["main"] \in {"created", "done"}
    /\ MergeIntoFile
    /\ Goto("main", "done")
    /\ NoEvent
    /\ UNCHANGED <<Output, elements_cache, TypingState, inactive, typing_lock,
                   Flags, mods, state, mouse, kbd, scenario_file, Accepted,
                   resolved>>

NextMerge ==
    \/ \E info \in MergeInfos : EnsureElement(info)
    \/ SaveElementsCall

SpecMerge == InitMerge /\ [][NextMerge]_vars

(***************************************************************************)
(* The end-to-end scenario: a click on the login button, "alice" typed     *)
(* into the user name field, Ctrl+S; every event is delivered when the     *)
(* callbacks of the events before it have returned                         *)
(***************************************************************************)
ClickEvent == [click |-> TRUE]
PressEvent(key) == [press |-> key]

ScenarioScript ==
    <<ClickEvent, PressEvent(KeyCode("a")), PressEvent(KeyCode("l")),
      PressEvent(KeyCode("i")), PressEvent(KeyCode("c")),
      PressEvent(KeyCode("e")), PressEvent(KeyEnum("ctrl_l")),
      PressEvent(KeyCode("s"))>>

InitScenario ==
    /\ InitRecorder
    /\ state = "default"
    /\ persisted = InitialDocument
    /\ persisted_pre = InitialDocument
    /\ script = ScenarioScript

\* the OS hooks deliver the next event of the script
ScriptedEvent ==
    /\ script # <<>>
    /\ pc["mouse"] = "m_idle"
    /\ pc["keyboard"] = "k_idle"
    /\ IF "click" \in DOMAIN Head(script)
       THEN MouseClick(TRUE)
       ELSE KeyPress(Head(script).press)
    /\ script' = Tail(script)
    /\ UNCHANGED <<nevents, missing>>

\* the point query misses and the retry loop has a pass left
MouseCaptureRetry ==
    /\ mouse.attempt + 1 < CaptureAttempts
    /\ MouseCaptureMiss

NextScenario ==
    \/ Start
    \/ ScriptedEvent
    \/ Handlers({LoginButton}, {UsernameField})
    \/ MouseCaptureRetry
    \/ FlushChecker
    \/ Tick

SpecScenario == InitScenario /\ [][NextScenario]_vars

(***************************************************************************)
(* One click whose element is resolved from the accessibility tree: the    *)
(* hit test returns a node with any chain of ancestors from HitTests       *)
(***************************************************************************)
InitRefine ==
    /\ InitRecorder
    /\ state = "default"
    /\ persisted = InitialDocument
    /\ persisted_pre = InitialDocument
    /\ script = <<ClickEvent>>

NextRefine ==
    \/ Start
    \/ ScriptedEvent
    \/ MouseFlushAcquire
    \/ MouseFlush
    \/ MouseCaptureAtPoint
    \/ MouseStore
    \/ MouseAppend

SpecRefine == InitRefine /\ [][NextRefine]_vars

(***************************************************************************)
(* Properties of a recording session                                       *)
(***************************************************************************)
\* s starts with p
HasPrefix(s, p) == Len(p) <= Len(s) /\ SubSeq(s, 1, Len(p)) = p

\* the texts of the Type steps of st, in order
RECURSIVE TypedText(_)
TypedText(st) ==
    IF st = <<>> THEN ""
    ELSE (IF IsType(Head(st)) THEN Head(st).type.text ELSE "") \o TypedText(Tail(st))

MousePastFlush == pc["mouse"] \in {"m_capture", "m_store", "m_append"}

\* C11: every step of the session leaves the steps recorded so far in place,
\* as a prefix of the new step list, and a scenario file that is written
\* completely holds the step list in that order
StepsAppendOnly ==
    [][/\ HasPrefix(steps', steps)
       /\ (scenario_file' # scenario_file /\ scenario_file' # TruncatedFile)
             => scenario_file' = ScenarioFile(steps)]_vars

\* a scenario of a Type step followed by another step has been written
SeveralStepsSaved ==
    /\ Len(steps) >= 2
    /\ IsType(steps[1])
    /\ scenario_file = ScenarioFile(steps)

\* C1: once the click handler is past its flush, and so whenever it appends
\* its Click step, the text that was in the typing buffer when the handler
\* began is carried by a Type step, on the element of that span, that was
\* appended after the handler began
ClickFlushesPendingTyping ==
    (MousePastFlush /\ mouse.pending # <<>>) =>
        \E i \in (mouse.nsteps + 1)..Len(steps) :
            /\ IsType(steps[i])
            /\ steps[i].type.element = mouse.pending_key
            /\ HasPrefix(steps[i].type.text, Join(mouse.pending))

\* a click on the login button that found "a" pending on the user name field
\* is about to append its Click step after the Type step
ClickAfterPendingTyping ==
    /\ pc["mouse"] = "m_append"
    /\ mouse.pending = <<"a">>
    /\ mouse.key = "loginButton"
    /\ steps = <<TypeStep("usernameField", "a")>>

ModifierPressRecordsNothing ==
    [][(\E key \in ModifierKeys : KeyPress(key)) =>
          UNCHANGED <<steps, step_meta, typing_buffer, typing_element_key,
                      elements_cache, accepted, pc, kbd>>]_vars

\* Ctrl and Shift are held while "a" is pending and no step has been appended
ModifiersHeldOverPendingText ==
    /\ mods.ctrl /\ mods.shift
    /\ typing_buffer = <<"a">>
    /\ steps = <<>>

\* C14: whichever trigger requested the stop, when every event delivered
\* before the request had been handled, the stopped session holds the steps
\* and elements of those events, with the pending text flushed, and nothing
\* of an event delivered later
StopTriggersEquivalent ==
    (/\ stop_snapshot.taken
     /\ stop_snapshot.idle
     /\ ~recording /\ ~listeners_running
     /\ CallbacksIdle) =>
        /\ steps = stop_snapshot.steps
        /\ elements_cache = stop_snapshot.cache

\* C15: with a dependency missing the record command ends in its error
\* exit or in the ImportError of the constructor; no listener, hotkey thread
\* or flush-checker is ever started, and nothing is recorded or saved
CapabilityErrorBeforeStart ==
    missing # None =>
        /\ pc["main"] \in {"uncreated", "cli_error", "import_error"}
        /\ pc["mouse"] = "m_idle" /\ pc["keyboard"] = "k_idle"
        /\ pc["flush"] = "f_unstarted" /\ pc["hotkey"] = "h_unstarted"
        /\ ~recording /\ ~listeners_running
        /\ steps = <<>> /\ elements_cache = <<>> /\ typing_buffer = <<>>
        /\ scenario_file = NoFile /\ persisted = InitialDocument

\* the constructor has raised ImportError for comtypes
ConstructorRaised == missing = "comtypes" /\ pc["main"] = "import_error"

\* C16: a callback that returns because its element could not be captured
\* (the point query missed on the last pass of the retry loop, or the focus
\* query missed) appends no step and changes neither the typing span, the
\* element cache nor the session flags: the session keeps recording
DroppedEventChangesNothing ==
    [][(\/ pc["mouse"] = "m_capture" /\ pc'["mouse"] = "m_idle"
        \/ pc["keyboard"] = "k_capture" /\ pc'["keyboard"] = "k_idle") =>
          UNCHANGED <<steps, typing_buffer, typing_element_key, accepted,
                      elements_cache, recording, stopping, stop_requested,
                      stop_event, listeners_running>>]_vars

\* two events have been handled while recording; one was dropped, the other
\* gave the only step
EventDroppedOtherRecorded ==
    /\ nevents = 2
    /\ CallbacksIdle
    /\ recording /\ ~stopping
    /\ accepted = <<>>
    /\ steps = <<ClickStep("loginButton")>>

\* the main thread is in, or between, the save methods
Saving == pc["main"] \in {"save_scenario", "save_elements"} \cup AfterSession

CacheMerged ==
    \A i \in DOMAIN elements_cache :
        \/ elements_cache[i].key \in DOMAIN persisted.elements
        \/ DerivedKey(elements_cache[i].key, state) \in DOMAIN persisted.elements

\* record_session has returned and no callback is running
SessionEnded == pc["main"] = "done" /\ CallbacksIdle

\* C18: when record_session has returned, the scenario file holds the step
\* list of the session and every cached element is in the element document
SessionOutputsSaved ==
    SessionEnded => scenario_file = ScenarioFile(steps) /\ CacheMerged

\* stop() has run to its end
StopCompleted == stop_issued /\ ~recording /\ ~listeners_running

\* C19: while record_session saves the outputs or has returned, and once
\* stop() has run to its end, no listener callback is executing and no text
\* is left to be flushed into a step
StoppedOnlyWhenQuiet ==
    (Saving \/ StopCompleted) => CallbacksIdle /\ typing_buffer = <<>>

\* C20: when stop() has run to its end and the callbacks and the
\* flush-checker have returned, the typing buffer is empty and the Type steps
\* carry every character that was accepted
NoCharacterStranded ==
    (StopCompleted /\ CallbacksIdle /\ pc["flush"] = "f_done") =>
        /\ typing_buffer = <<>>
        /\ TypedText(steps) = Join(accepted)

\* the positions of a thread inside a with self._typing_lock block
LockedLabels ==
    {"m_flushing", "k_hk_flushing", "k_locked", "f_locked", "stop_flushing"}

InLockedBlock(t) == pc[t] \in LockedLabels

\* at most one thread is inside a with self._typing_lock block
OneFlusherAtATime ==
    \A t \in Threads : \A u \in Threads :
        (InLockedBlock(t) /\ InLockedBlock(u)) => t = u

\* C21: the flushes of the flush-checker, the click and hotkey handlers, the
\* element change of the typing handler and stop() exclude each other; a
\* step that appends a Type step appends one only, with the whole pending
\* span, and leaves nothing of that span in the buffer, so that the Type
\* steps and the buffer always hold every accepted character exactly once
FlushEmitsSpanOnce ==
    /\ []OneFlusherAtATime
    /\ [][/\ TypedText(steps') \o Join(typing_buffer') = Join(accepted')
          /\ \A i \in (Len(steps) + 1)..Len(steps') :
                IsType(steps'[i]) =>
                    /\ Len(steps') = Len(steps) + 1
                    /\ typing_buffer # <<>>
                    /\ steps'[i] = TypeStep(typing_element_key,
                                            Join(typing_buffer))
                    /\ typing_buffer' \in {<<>>, <<kbd.char>>}]_vars

\* stop() flushed the span "a" while the click handler and the flush-checker
\* were waiting to flush it
SpanFlushedUnderContention ==
    /\ pc["main"] = "stop_listeners"
    /\ pc["mouse"] = "m_flush"
    /\ pc["flush"] = "f_wait"
    /\ accepted = <<"a">>
    /\ steps = <<TypeStep("usernameField", "a")>>
    /\ step_meta[1].by = "stop"

\* C22: a step of a thread that changes the typing buffer or the element key
\* of the span, or that renews the last-activity timestamp, is taken while
\* that thread holds the typing lock
TypingStateUnderLock ==
    [][\A t \in Threads :
          (/\ pc'[t] # pc[t]
           /\ \/ typing_buffer' # typing_buffer
              \/ typing_element_key' # typing_element_key
              \/ inactive /\ ~inactive') => typing_lock = t]_vars

\* n times the key k
Repeat(k, n) == [i \in 1..n |-> k]

\* for every character of the Type steps of st, in order, the element the
\* step names
RECURSIVE TypedOn(_)
TypedOn(st) ==
    IF st = <<>> THEN <<>>
    ELSE (IF IsType(Head(st))
          THEN Repeat(Head(st).type.element, Len(Head(st).type.text))
          ELSE <<>>) \o TypedOn(Tail(st))

\* C23: when _handle_typing buffers a character typed on another element
\* than the pending span's, it first appends the Type step of the old span
\* and the buffer then holds the new character alone; so every character of
\* a Type step, and of the buffer, was typed on the element that the step,
\* or the span, names
ElementChangeFlushesFirst ==
    /\ [](TypedOn(steps) \o Repeat(typing_element_key, Len(typing_buffer))
             = accepted_on)
    /\ [][(pc["keyboard"] = "k_locked" /\ pc'["keyboard"] = "k_idle") =>
             /\ typing_element_key' = kbd.key
             /\ IF typing_buffer # <<>> /\ typing_element_key # kbd.key
                THEN /\ steps' = Append(steps, TypeStep(typing_element_key,
                                                        Join(typing_buffer)))
                     /\ typing_buffer' = <<kbd.char>>
                ELSE /\ steps' = steps
                     /\ typing_buffer' = Append(typing_buffer, kbd.char)]_vars

\* "a" typed on the user name field was flushed by the typing handler when
\* "b" was typed on another element
SpanFlushedByElementChange ==
    /\ steps = <<TypeStep("usernameField", "a")>>
    /\ step_meta[1].by = "keyboard"
    /\ typing_buffer = <<"b">>
    /\ typing_element_key = "element"
    /\ accepted_on = <<"usernameField", "element">>

\* C24: while the session records, text that is pending in the typing buffer
\* is eventually emitted, whether or not another input event arrives
PendingTextEventuallyFlushed ==
    (recording /\ typing_buffer # <<>>) ~> (typing_buffer = <<>>)

\* the only input was "a"; the flush-checker has emitted its Type step
CheckerFlushedOnlyInput ==
    /\ recording
    /\ nevents = 1
    /\ steps = <<TypeStep("usernameField", "a")>>
    /\ step_meta[1].by = "flush"
    /\ typing_buffer = <<>>

\* stop() has returned on every thread that called it, record_session is
\* past its wait loop and at the saving of the outputs, the flush-checker
\* and the hotkey message loop have ended, no callback is running and the
\* typing lock is free
AllReturned ==
    /\ pc["main"] = "save_scenario"
    /\ pc["hotkey"] = "h_done"
    /\ pc["flush"] = "f_done"
    /\ CallbacksIdle
    /\ typing_lock = "free"

\* C25: a click handler never makes more than 3 capture attempts, and a stop
\* request, by whichever trigger, leads to the state in which every thread
\* of the session has finished and record_session is at the saving
StopTerminates ==
    /\ [](mouse.attempt < 3)
    /\ stop_issued ~> AllReturned

\* the stop hotkey arrived while the click handler was in its third capture
\* attempt; stop() has returned on the hotkey thread, the handler is still
\* running
StopReturnedHandlerInFlight ==
    /\ stop_hotkey_pressed
    /\ pc["hotkey"] = "h_done"
    /\ pc["mouse"] = "m_capture"
    /\ mouse.attempt = 2
    /\ ~mouse.late

\* the positions at which a thread waits to enter a with self._typing_lock
\* block
AcquireLabels == {"m_flush", "k_hk_flush", "k_lock", "f_wait", "stop_flush"}

\* C26: the typing lock is held by a thread exactly while that thread is
\* inside a with self._typing_lock block, so a thread that waits for the lock
\* never holds it itself; and whenever the lock is held, the next step of
\* its holder is enabled and releases it
LockNeverDeadlocks ==
    /\ \A t \in Threads : typing_lock = t <=> InLockedBlock(t)
    /\ \A t \in Threads : pc[t] \in AcquireLabels => typing_lock # t
    /\ typing_lock # "free" => ENABLED (NextFlush /\ typing_lock' = "free")

\* the typing handler holds the lock while the click handler, the
\* flush-checker and stop() wait for it
ThreeThreadsWaitForLock ==
    /\ typing_lock = "keyboard"
    /\ pc["mouse"] = "m_flush"
    /\ pc["flush"] = "f_wait"
    /\ pc["main"] = "stop_flush"

\* the click handler has resolved the element of its hit test
Refined == pc["mouse"] \in {"m_store", "m_append"} /\ mouse.hit # NoHit

\* a node with a non-empty name and a control type that is not generic
Acceptable(node) ==
    /\ node.has_info
    /\ node.name # ""
    /\ node.control_type # None
    /\ node.control_type \notin {"Pane", "Custom", "Group", "Window"}

\* the indices of the nodes the walk can inspect: the hit-tested node and at
\* most 4 of its ancestors
Inspected(hit) == 1..Min(Len(hit.nodes), 5)

AcceptableInspected(hit) ==
    {i \in Inspected(hit) : Acceptable(hit.nodes[i])}

\* C27: the resolver returns one of the first 5 nodes of the chain; when one
\* of them is acceptable it returns the nearest acceptable one, and a node
\* other than the hit-tested one is only returned when it is acceptable
RefineReturnsNearestAcceptable ==
    Refined =>
        /\ mouse.refined \in Inspected(mouse.hit)
        /\ mouse.refined # 1 => Acceptable(mouse.hit.nodes[mouse.refined])
        /\ \A i \in AcceptableInspected(mouse.hit) :
              /\ mouse.refined <= i
              /\ Acceptable(mouse.hit.nodes[mouse.refined])

\* the fifth node of the chain, the only acceptable one, was returned
FifthNodeReturned ==
    /\ Refined
    /\ Len(mouse.hit.nodes) = 6
    /\ AcceptableInspected(mouse.hit) = {5}
    /\ Acceptable(mouse.hit.nodes[6])
    /\ mouse.refined = 5

\* C28: when none of the inspected nodes is acceptable, the resolver returns
\* the last node it inspected
RefineReturnsLastVisited ==
    (Refined /\ AcceptableInspected(mouse.hit) = {}) =>
        mouse.refined = Min(Len(mouse.hit.nodes), 5)

\* the walk ran through its 5 passes without an acceptable node
BoundExhausted(hit) ==
    Len(hit.nodes) > 5 /\ AcceptableInspected(hit) = {}

\* C29: when the walk exhausts its bound the hit-tested node itself is the
\* resolved element, its control info is the one the handler resolves to a
\* key, and the handler appends the Click step on that key
RawNodeUsedWhenExhausted ==
    /\ []((Refined /\ BoundExhausted(mouse.hit)) =>
             /\ mouse.refined = 1
             /\ mouse.info = ExtractControlInfo(mouse.hit.nodes[1]))
    /\ [][(BoundExhausted(mouse.hit) /\ pc'["mouse"] = "m_idle") =>
             steps' = Append(steps, ClickStep(mouse.key))]_vars

\* the walk from an unnamed button under five panes ran out of passes; the
\* handler is about to append the Click step on the key of the button
DegradedClickResolved ==
    /\ pc["mouse"] = "m_append"
    /\ BoundExhausted(mouse.hit)
    /\ mouse.hit.nodes[1] = UnnamedButton
    /\ mouse.hit.nodes[6] = NamedPane
    /\ mouse.key = "Button"
    /\ "Button" \in CacheKeys(elements_cache)

TypeTextIsConcatenation ==
    /\ TypedText(steps) \o Join(typing_buffer) = Join(accepted)
    /\ \A i \in DOMAIN steps : IsType(steps[i]) => steps[i].type.text # ""

\* "ab" typed on one element came out as one Type step
TwoCharactersOneStep ==
    /\ accepted = <<"a", "b">>
    /\ steps = <<TypeStep("usernameField", "ab")>>
    /\ typing_buffer = <<>>

\* C5: a pass of the flush-checker over a timed-out span appends exactly one
\* Type step with the whole buffer and empties the buffer; a pass over an
\* empty or active buffer appends nothing
InactivityFlushOnce ==
    [][(pc["flush"] = "f_locked" /\ pc'["flush"] = "f_loop") =>
          IF typing_buffer # <<>> /\ inactive
          THEN /\ steps' = Append(steps, TypeStep(typing_element_key,
                                                  Join(typing_buffer)))
               /\ typing_buffer' = <<>>
          ELSE steps' = steps /\ typing_buffer' = typing_buffer]_vars

\* the flush-checker has flushed a span and is in a later pass, on the empty
\* buffer
CheckerPassAfterFlush ==
    /\ pc["flush"] = "f_locked"
    /\ typing_buffer = <<>>
    /\ Len(steps) = 1
    /\ step_meta[1].by = "flush"

\* C6: every Click and Type step names a key of the element cache, and the
\* key was in the cache when the step was appended
StepsNameCachedElements ==
    \A i \in DOMAIN steps :
        /\ step_meta[i].known
        /\ IsClick(steps[i]) => steps[i].click.element \in CacheKeys(elements_cache)
        /\ IsType(steps[i]) => steps[i].type.element \in CacheKeys(elements_cache)

\* a Type step and a Click step have been recorded
ClickAndTypeRecorded ==
    /\ Len(steps) = 2
    /\ \E i \in DOMAIN steps : IsClick(steps[i])
    /\ \E i \in DOMAIN steps : IsType(steps[i])

\* C7: every resolution of the same element yields the same key
SameElementSameKey ==
    \A p \in resolved : \A q \in resolved : p[1] = q[1] => p[2] = q[2]

(***************************************************************************)
(* Properties of the stop protocol                                         *)
(***************************************************************************)
\* C3: no callback is past its guard for an event that was delivered after
\* the stop request
LateEventsShortCircuit ==
    /\ pc["mouse"] # "m_idle" => ~mouse.late
    /\ pc["keyboard"] # "k_idle" => ~kbd.late

\* C4: a step appended after the stop request is the Type step of the flush
\* of stop()
OnlyStopFlushAfterStop ==
    \A i \in DOMAIN step_meta : step_meta[i].late => step_meta[i].by = "stop"


(***************************************************************************)
(* Properties of the element merge                                         *)
(***************************************************************************)
Merged == pc["main"] = "done"

\* C8: an entry of the document whose key is a key of the session cache and
\* whose state label is the session's is the same before and after the merge
MergeKeepsSameStateEntries ==
    Merged =>
        \A i \in DOMAIN elements_cache :
            LET k == elements_cache[i].key
            IN  (/\ k \in DOMAIN persisted_pre.elements
                 /\ ExistingState(persisted_pre.elements[k]) = state)
                => /\ k \in DOMAIN persisted.elements
                   /\ persisted.elements[k] = persisted_pre.elements[k]

\* the merge has run on a document that holds the cached key loginButton
\* with the session's state label and locators that differ from the cached
\* ones
SameStateEntryMerged ==
    /\ Merged
    /\ state = "default"
    /\ "loginButton" \in CacheKeys(elements_cache)
    /\ "loginButton" \in DOMAIN persisted_pre.elements
    /\ persisted_pre.elements["loginButton"] = CustomSpec

\* C9: a cache entry whose key is absent from the document is inserted under
\* its key; one whose key is present with another state label is inserted
\* under key__state and the entry under the key stays as it was
MergeInsertsOrDerives ==
    Merged =>
        \A i \in DOMAIN elements_cache :
            LET k == elements_cache[i].key
                spec == elements_cache[i].spec
                pre == persisted_pre.elements
                post == persisted.elements
            IN  /\ k \notin DOMAIN pre =>
                    k \in DOMAIN post /\ post[k] = spec
                /\ (k \in DOMAIN pre /\ ExistingState(pre[k]) # state) =>
                    /\ DerivedKey(k, state) \in DOMAIN post
                    /\ post[DerivedKey(k, state)] = spec
                    /\ post[k] = pre[k]

\* the merge has inserted one cache entry under its key and another under
\* its derived key
InsertedAndDerived ==
    /\ Merged
    /\ state = "loggedIn"
    /\ CacheKeys(elements_cache) = {"loginButton", "usernameField"}
    /\ DOMAIN persisted_pre.elements = {"loginButton"}
    /\ DOMAIN persisted.elements =
          {"loginButton", "loginButton__loggedIn", "usernameField"}

(***************************************************************************)
(* Properties of the end-to-end scenario                                   *)
(***************************************************************************)
ScenarioDone ==
    script = <<>> /\ pc["mouse"] = "m_idle" /\ pc["keyboard"] = "k_idle"

ScenarioSteps ==
    <<ClickStep("loginButton"), TypeStep("usernameField", "alice"),
      HotkeyStep("^s")>>

\* C10, as claimed: the scenario produces exactly the three steps
ScenarioProducesThreeSteps == ScenarioDone => steps = ScenarioSteps

\* the flush-checker has not emitted a step
NoInactivityFlush == \A i \in DOMAIN step_meta : step_meta[i].by # "flush"

\* C10, amended: the scenario produces the Click step, then Type steps on
\* usernameField whose texts concatenate to "alice", then the Hotkey step;
\* the Type step is a single one unless the flush-checker flushed in between
ScenarioProducesSteps ==
    ScenarioDone =>
        /\ Len(steps) >= 3
        /\ steps[1] = ClickStep("loginButton")
        /\ steps[Len(steps)] = HotkeyStep("^s")
        /\ \A i \in 2..(Len(steps) - 1) :
              IsType(steps[i]) /\ steps[i].type.element = "usernameField"
        /\ TypedText(steps) = "alice"
        /\ NoInactivityFlush => steps = ScenarioSteps

\* the scenario has run to its end without an inactivity flush
ScenarioRanWithoutPause == ScenarioDone /\ NoInactivityFlush

(***************************************************************************)
(* Properties of the keyboard callback                                     *)
(***************************************************************************)
\* Ctrl, Alt or Win is tracked as held
CommandModifierHeld == mods.ctrl \/ mods.alt \/ mods.win

TypingLabels == {"k_capture", "k_store", "k_lock", "k_locked"}
HotkeyLabels == {"k_hk_flush", "k_hk_flushing", "k_hk_append"}

HotkeySteps(st) == {i \in DOMAIN st : IsHotkey(st[i])}

\* the effects of the key presses so far: the Hotkey steps, the buffered
\* characters and the effect the running callback is about to have
KeyEffects ==
    Cardinality(HotkeySteps(steps)) + Len(accepted) +
    (IF pc["keyboard"] = "k_idle" THEN 0 ELSE 1)

\* C31: a character is buffered only while no modifier other than Shift is
\* tracked as held; a callback on its way to the buffer carries a character
\* and no hotkey string, a callback on its way to a Hotkey step carries no
\* character; no step both appends a Hotkey step and buffers a character;
\* and the Hotkey steps and buffered characters together never outnumber the
\* key presses delivered
KeyPressBuffersOrEmitsHotkey ==
    /\ [](/\ pc["keyboard"] \in TypingLabels =>
                ~CommandModifierHeld /\ kbd.char # None /\ kbd.hotkey = None
          /\ pc["keyboard"] \in HotkeyLabels =>
                CommandModifierHeld /\ kbd.char = None /\ kbd.hotkey # None
          /\ KeyEffects <= nevents)
    /\ [][/\ accepted' # accepted =>
                /\ ~CommandModifierHeld
                /\ Len(accepted') = Len(accepted) + 1
                /\ HotkeySteps(steps') = HotkeySteps(steps)
          /\ HotkeySteps(steps') # HotkeySteps(steps) =>
                /\ UNCHANGED <<accepted, typing_buffer>>
                /\ Len(steps') = Len(steps) + 1]_vars

\* "a" was buffered while Shift was held, then Ctrl+Shift+a became a Hotkey
\* step
ShiftedCharacterThenHotkey ==
    /\ accepted = <<"a">>
    /\ mods.shift /\ mods.ctrl
    /\ \E i \in DOMAIN steps : steps[i] = HotkeyStep("^+a")
    /\ nevents = 2

\* every combination of the four modifier flags
ModifierStates == [ctrl : BOOLEAN, alt : BOOLEAN, shift : BOOLEAN, win : BOOLEAN]

Held(ctrl, alt, shift, win) ==
    [ctrl |-> ctrl, alt |-> alt, shift |-> shift, win |-> win]

\* the prefix of the held modifiers: Ctrl, Alt, Shift, Win in this order
ModifierPrefix(m) ==
    CASE m = Held(FALSE, FALSE, FALSE, FALSE) -> ""
      [] m = Held(TRUE, FALSE, FALSE, FALSE) -> "^"
      [] m = Held(FALSE, TRUE, FALSE, FALSE) -> "%"
      [] m = Held(FALSE, FALSE, TRUE, FALSE) -> "+"
      [] m = Held(FALSE, FALSE, FALSE, TRUE) -> "{LWIN}"
      [] m = Held(TRUE, TRUE, FALSE, FALSE) -> "^%"
      [] m = Held(TRUE, FALSE, TRUE, FALSE) -> "^+"
      [] m = Held(TRUE, FALSE, FALSE, TRUE) -> "^{LWIN}"
      [] m = Held(FALSE, TRUE, TRUE, FALSE) -> "%+"
      [] m = Held(FALSE, TRUE, FALSE, TRUE) -> "%{LWIN}"
      [] m = Held(FALSE, FALSE, TRUE, TRUE) -> "+{LWIN}"
      [] m = Held(TRUE, TRUE, TRUE, FALSE) -> "^%+"
      [] m = Held(TRUE, TRUE, FALSE, TRUE) -> "^%{LWIN}"
      [] m = Held(TRUE, FALSE, TRUE, TRUE) -> "^+{LWIN}"
      [] m = Held(FALSE, TRUE, TRUE, TRUE) -> "%+{LWIN}"
      [] m = Held(TRUE, TRUE, TRUE, TRUE) -> "^%+{LWIN}"

\* the keys of the examples and of the keyboard model, with the form they
\* take in a hotkey string
MainKeys ==
    {<<KeyCode("l"), "l">>, <<KeyCode("r"), "r">>, <<KeyCode("a"), "a">>,
     <<KeyEnum("f4"), "{F4}">>, <<KeyEnum("f12"), "{F12}">>,
     <<KeyEnum("esc"), "{ESC}">>, <<KeyEnum("page_up"), "{PGUP}">>}

\* the strings a press of a key of OtherKeys may be recorded as while the
\* modifiers m are held
HotkeyStrings(m) ==
    {ModifierPrefix(m) \o k[2] : k \in {x \in MainKeys : x[1] \in OtherKeys}}

\* C32: the hotkey string is the prefixes of the held modifiers in the order
\* Ctrl, Alt, Shift, Win followed by the key, special keys in brace form
\* (Ctrl+L is "^l", Alt+F4 is "%{F4}", Win+R is "{LWIN}r"); a modifier key
\* as the main key gives no string; and the string of every Hotkey step is
\* the one of the modifiers held when the step is appended
HotkeyStringEncodesCombination ==
    /\ \A m \in ModifierStates :
          /\ \A k \in MainKeys :
                FormatHotkey(m, k[1]) = ModifierPrefix(m) \o k[2]
          /\ \A k \in ModifierKeys : FormatHotkey(m, k) = None
    /\ FormatHotkey(Held(TRUE, FALSE, FALSE, FALSE), KeyCode("l")) = "^l"
    /\ FormatHotkey(Held(FALSE, TRUE, FALSE, FALSE), KeyEnum("f4")) = "%{F4}"
    /\ FormatHotkey(Held(FALSE, FALSE, FALSE, TRUE), KeyCode("r")) = "{LWIN}r"
    /\ [](pc["keyboard"] \in HotkeyLabels => kbd.hotkey \in HotkeyStrings(mods))
    /\ [][HotkeySteps(steps') # HotkeySteps(steps) =>
             /\ Len(steps') = Len(steps) + 1
             /\ IsHotkey(steps'[Len(steps')])
             /\ steps'[Len(steps')].hotkey.keys \in HotkeyStrings(mods)]_vars

\* Alt+F12, then "a" with all four modifiers held
AllModifiersHotkeyRecorded ==
    steps = <<HotkeyStep("%{F12}"), HotkeyStep("^%+{LWIN}a")>>

(***************************************************************************)
(* Further properties of the element merge                                 *)
(***************************************************************************)
\* C33: a merge leaves every element entry and every window entry of the
\* document it read in place, under the same key and with the same content
MergePreservesExistingEntries ==
    Merged =>
        /\ \A k \in DOMAIN persisted_pre.elements :
              /\ k \in DOMAIN persisted.elements
              /\ persisted.elements[k] = persisted_pre.elements[k]
        /\ \A w \in DOMAIN persisted_pre.windows :
              /\ w \in DOMAIN persisted.windows
              /\ persisted.windows[w] = persisted_pre.windows[w]

(***************************************************************************)
(* Properties of the element cache                                         *)
(***************************************************************************)
\* the cache c2 holds every entry of the cache c1, unchanged and in place
CacheExtends(c1, c2) ==
    Len(c2) >= Len(c1) /\ SubSeq(c2, 1, Len(c1)) = c1

\* C34: every cache entry carries the session's window name and state label
\* and the first 3 locator candidates of an element resolved to its key; a
\* resolution that stores a spec adds exactly one entry; and every step
\* leaves the entries the cache already holds unchanged and in place
CacheEntriesCreatedOnce ==
    /\ [](\A i \in DOMAIN elements_cache :
             LET e == elements_cache[i]
             IN  /\ e.spec.window = WindowName
                 /\ e.spec.when.state = state
                 /\ Len(e.spec.locators) <= 3
                 /\ \E p \in resolved :
                       /\ p[2] = e.key
                       /\ e.spec.locators =
                             SubSeq(Candidates(p[1]), 1,
                                    Min(3, Len(Candidates(p[1]))))
                 /\ \A j \in DOMAIN elements_cache :
                       elements_cache[j].key = e.key => j = i)
    /\ [][/\ CacheExtends(elements_cache, elements_cache')
          /\ (MouseStore \/ KeyStore) =>
                Len(elements_cache') = Len(elements_cache) + 1]_vars

\* the strings the stop combination would be recorded as
StopCombinationStrings ==
    {ModifierPrefix(m) \o "{F12}" : m \in {x \in ModifierStates : x.ctrl /\ x.shift}}

StopFlags == <<recording, stopping, stop_requested, stop_event,
               stop_hotkey_pressed, listeners_running>>

\* C35: a press of F12 while Ctrl and Shift are tracked as held changes
\* nothing: no step, no change of the typing span, and the callback returns
\* at once; no Hotkey step ever holds the stop combination; no step of the
\* keyboard callbacks changes a flag of the stop protocol; and the stop
\* hotkey is only ever noted by the hotkey thread in its message loop
StopCombinationNeverRecorded ==
    /\ [](\A i \in HotkeySteps(steps) :
             steps[i].hotkey.keys \notin StopCombinationStrings)
    /\ [][/\ (KeyPress(KeyEnum("f12")) /\ mods.ctrl /\ mods.shift) =>
                UNCHANGED <<steps, step_meta, typing_buffer,
                            typing_element_key, elements_cache, accepted,
                            pc, kbd>>
          /\ (ChordEvents \/ KeyHandlers) => UNCHANGED StopFlags
          /\ stop_hotkey_pressed' # stop_hotkey_pressed =>
                pc["hotkey"] = "h_loop" /\ pc'["hotkey"] = "h_set_stopping"]_vars

\* the stop combination was pressed over pending text, the hotkey thread
\* has stopped the session, and the text is the only step
StoppedByHotkeyOverPendingText ==
    /\ mods.ctrl /\ mods.shift
    /\ nevents = 2
    /\ stop_hotkey_pressed /\ ~recording /\ ~listeners_running
    /\ accepted = <<"a">>
    /\ steps = <<TypeStep("usernameField", "a")>>

(***************************************************************************)
(* Properties of the session state                                         *)
(***************************************************************************)
\* the SessionState of the recorder, read from its flags
SessionState ==
    IF ~recording /\ ~stopping /\ ~listeners_running THEN "Idle"
    ELSE IF recording /\ ~stopping THEN "Recording"
    ELSE IF listeners_running THEN "Stopping"
    ELSE "Stopped"

Rank(s) ==
    CASE s = "Idle" -> 0 [] s = "Recording" -> 1 [] s = "Stopping" -> 2
      [] s = "Stopped" -> 3

\* C36: no step moves the session state backwards, start() takes Idle to
\* Recording, and while the session is Stopping or Stopped no callback gets
\* past its guard
SessionStateMovesForward ==
    /\ [](SessionState \in {"Idle", "Recording", "Stopping", "Stopped"})
    /\ [][/\ Rank(SessionState') >= Rank(SessionState)
          /\ SessionState = "Idle" /\ SessionState' # "Idle" =>
                SessionState' = "Recording"
          /\ SessionState \in {"Stopping", "Stopped"} =>
                /\ pc["mouse"] = "m_idle" => pc'["mouse"] = "m_idle"
                /\ pc["keyboard"] = "k_idle" => pc'["keyboard"] = "k_idle"]_vars

\* the elements p and q have first-ranked locators, and different ones
DifferentFirstLocators(p, q) ==
    /\ Candidates(p) # <<>>
    /\ Candidates(q) # <<>>
    /\ Candidates(p)[1] # Candidates(q)[1]

\* the cache entry stored under key k describes the element info
DescribedBy(cache, k, info) ==
    /\ k \in CacheKeys(cache)
    /\ LET locators == cache[CacheGet(cache, k)].spec.locators
       IN  IF locators = <<>> \/ Candidates(info) = <<>>
           THEN locators = <<>> /\ Candidates(info) = <<>>
           ELSE locators[1] = Candidates(info)[1]

\* C37: while the two listener threads resolve elements at the same time,
\* two elements with different first-ranked locators never get the same key,
\* no step replaces the locators of an entry the cache holds, and a handler
\* that is about to emit a step for its key finds under that key the entry
\* of the element it resolved
CacheConsistentUnderConcurrency ==
    /\ [](/\ \A p \in resolved : \A q \in resolved :
                DifferentFirstLocators(p[1], q[1]) => p[2] # q[2]
          /\ pc["mouse"] = "m_append" =>
                DescribedBy(elements_cache, mouse.key, mouse.info)
          /\ pc["keyboard"] \in {"k_lock", "k_locked"} =>
                DescribedBy(elements_cache, kbd.key, kbd.info))
    /\ [][\A i \in DOMAIN elements_cache :
             /\ i \in DOMAIN elements_cache'
             /\ elements_cache'[i].key = elements_cache[i].key
             /\ elements_cache'[i].spec.locators =
                   elements_cache[i].spec.locators]_vars

(***************************************************************************)
(* Properties of repeated calls of stop()                                  *)
(***************************************************************************)
\* thread t is at a call of stop()
StopCalled(t) ==
    \/ StopCheck(t)
    \/ t = "main" /\ (ExplicitStop \/ StopBeforeStart)

\* everything but the position of the calling thread
SessionData ==
    <<steps, step_meta, typing_buffer, typing_element_key, elements_cache,
      recording, stopping, stop_requested, stop_event, stop_hotkey_pressed,
      listeners_running, mods, inactive, typing_lock>>

\* the steps appended by the flush of a stop()
StopFlushSteps == {i \in DOMAIN step_meta : step_meta[i].by = "stop"}

\* the number of characters in the Type steps of st
RECURSIVE TypedLength(_)
TypedLength(st) ==
    IF st = <<>> THEN 0
    ELSE (IF IsType(Head(st)) THEN Len(Head(st).type.text) ELSE 0) +
         TypedLength(Tail(st))

\* a call of stop() on a recorder that does not record changes nothing
StopWhileNotRecordingIsNoOp ==
    \A t \in StopThreads :
        (StopCalled(t) /\ ~recording) => UNCHANGED SessionData

\* C38, as claimed: a call of stop() on a recorder that does not record
\* changes nothing, and the flush of a stop() that runs when the other
\* thread's stop() has flushed already appends no step
StopIsIdempotent ==
    [][/\ StopWhileNotRecordingIsNoOp
       /\ \A t \in StopThreads : \A u \in StopThreads \ {t} :
             (StopFlush(t) /\ pc[u] = "stop_listeners") => steps' = steps]_vars

\* What repeated calls of stop() do keep: a call of stop() on a recorder that
\* does not record changes nothing; a stop() that runs its body after the other thread has cleared
\* _recording leaves every flag as it is; every flush of a stop() appends at
\* most one step, and no character is ever emitted twice: the characters of
\* the Type steps and of the buffer are the characters accepted
StopRepeatsOnlyTheFlush ==
    /\ [](TypedLength(steps) + Len(typing_buffer) = Len(accepted))
    /\ [][/\ StopWhileNotRecordingIsNoOp
          /\ \A t \in StopThreads :
                /\ (StopSetRecording(t) /\ ~recording) =>
                      UNCHANGED <<recording, stopping, stop_requested,
                                  stop_event, stop_hotkey_pressed,
                                  listeners_running>>
                /\ StopFlush(t) => Len(steps') <= Len(steps) + 1]_vars

Saved(doc) ==
    MergeDocument(doc, elements_cache, WindowName, WindowTitleRe, state,
                  Backend)

\* C40: a save_elements that follows a save_elements leaves the persisted
\* document as it is, and the document any save_elements leaves is one that
\* a further save_elements of the same cache would write again unchanged
MergeIsIdempotent ==
    [][SaveElementsCall =>
          /\ pc["main"] = "done" => persisted' = persisted
          /\ Saved(persisted)' = persisted']_vars

\* save_elements has run twice: the first run added a variant of loginButton
\* for the session's state to a document that holds it in another state, the
\* second run changed nothing
SavedTwiceWithVariant ==
    /\ pc["main"] = "done"
    /\ state = "loggedIn"
    /\ "loginButton" \in CacheKeys(elements_cache)
    /\ "loginButton" \in DOMAIN persisted.elements
    /\ ExistingState(persisted.elements["loginButton"]) # state
    /\ DerivedKey("loginButton", state) \in DOMAIN persisted.elements
    /\ persisted_pre = persisted

====
